---- MODULE Spec2Model ----
(***************************************************************************)
(* Delta-net graph reduction engine of vic/GoDNet (package deltanet).      *)
(*                                                                         *)
(* The heap is three arenas: nodes (agents), ports and wires.  A pointer   *)
(* is an index into its arena and 0 is nil.  The scheduler is the array of *)
(* MaxPriority FIFO channels plus the signal channel.  Thread 0 is the     *)
(* caller of the API, threads 1..workers are the goroutines of             *)
(* Network.Start.                                                          *)
(*                                                                         *)
(* Granularity.  Every receive attempt of Pop on a bucket, the blocking    *)
(* receive on signal and every claim (SetDead) start a step of their own.  *)
(* reductionMu.Lock() is taken in the step of the first claim: an acquire  *)
(* commutes to the right of every step of another thread.  The unlock and  *)
(* wg.Done() are taken in the step of the rule body: a release commutes to *)
(* the left, and so does the decrement, because the only steps that read   *)
(* the counter wait for zero.  The body of a rule, whose wire edits are    *)
(* taken under the wire mutexes, is one step.                              *)
(*                                                                         *)
(* Only the agent kinds Fan, Eraser, Replicator and Var are modelled; the  *)
(* Data / Pure / Effect / Handler extensions are not built by any input.   *)
(***************************************************************************)
EXTENDS Integers, Sequences, FiniteSets, TLC

(* ---------------------------- bounds ---------------------------------- *)
\* largest worker count given to SetWorkers
MaxWorkers == 2
\* how many levels below the deepest wire the caller links a rewrite may
\* put a new wire
MaxDeepening == 1
\* number of API calls the caller makes after the net is built
MaxCalls == 2
\* largest argument of ReduceWithLimit
MaxLimit == 2
\* capacity given to EnableTrace
TraceCap == 3

(* ------------------------ program constants --------------------------- *)
MaxPriority == 64
QueueCap == 1024
SignalCap == 10000
gcInterval == 10

Main == 0
Threads == 0..MaxWorkers

VARIABLES
  nodes,        \* Network.nodes / the agents ever created, by id
  ports,        \* every Port: [node, index, wire]
  wires,        \* every Wire: [P0, P1, depth]
  queues,       \* Scheduler.queues
  signal,       \* number of tokens in Scheduler.signal
  wg,           \* counter of Network.wg
  reductionMu,  \* holder of Network.reductionMu, -1 when free
  started,      \* Network.startOnce has run
  workers,      \* Network.workers
  phase,        \* Network.phase
  stats,        \* the statistics counters
  trace,        \* traceBuf / traceIdx
  hang,         \* a primitive is stuck in a loop or a send that cannot return
  pc,           \* position of every thread
  scan,         \* loop variable i of Pop, per thread
  cur,          \* the wire a thread popped, per thread
  ret,          \* return addresses of the caller's nested API calls
  m,            \* locals of the caller's API calls
  initNet       \* which net the caller built

vars == <<nodes, ports, wires, queues, signal, wg, reductionMu, started,
          workers, phase, stats, trace, hang, pc, scan, cur, ret, m, initNet>>

(* ------------------------------ heap ---------------------------------- *)
\* The mutable part of the Network that the graph primitives transform.
G == [nodes |-> nodes, ports |-> ports, wires |-> wires, queues |-> queues,
      signal |-> signal, wg |-> wg, stats |-> stats, trace |-> trace,
      hang |-> FALSE]

Commit(g) ==
  /\ nodes' = g.nodes
  /\ ports' = g.ports
  /\ wires' = g.wires
  /\ queues' = g.queues
  /\ signal' = g.signal
  /\ wg' = g.wg
  /\ stats' = g.stats
  /\ trace' = g.trace
  /\ hang' = (hang \/ g.hang)

ZeroStats == [ops |-> 0, statFanAnn |-> 0, statRepAnn |-> 0, statRepComm |-> 0,
              statFanRepComm |-> 0, statErasure |-> 0, statRepDecay |-> 0,
              statRepMerge |-> 0, statAuxFanRep |-> 0]

NewNetwork ==
  [nodes |-> <<>>, ports |-> <<>>, wires |-> <<>>,
   queues |-> [i \in 0..(MaxPriority - 1) |-> <<>>],
   signal |-> 0, wg |-> 0, stats |-> ZeroStats,
   trace |-> [on |-> FALSE, cap |-> 0, idx |-> 0, buf |-> <<>>],
   hang |-> FALSE]

EnableTrace(g, capacity) ==
  [g EXCEPT !.trace = [on |-> TRUE,
                       cap |-> IF capacity <= 0 THEN 1 ELSE capacity,
                       idx |-> 0, buf |-> <<>>]]

\* node.Ports()[i]
PortOf(g, n, i) == g.nodes[n].ports[i + 1]
NumPorts(g, n) == Len(g.nodes[n].ports)
Type(g, n) == g.nodes[n].typ
Level(g, n) == g.nodes[n].level
Deltas(g, n) == g.nodes[n].deltas
IsDead(g, n) == g.nodes[n].dead = 1
WireAt(g, p) == g.ports[p].wire
NodeAt(g, p) == g.ports[p].node
IndexAt(g, p) == g.ports[p].index

addNodeInternal(g, typ, numPorts, level, deltas) ==
  LET id == Len(g.nodes) + 1
      base == Len(g.ports)
      node == [typ |-> typ, ports |-> [i \in 1..numPorts |-> base + i],
               dead |-> 0, level |-> level, deltas |-> deltas,
               reg |-> TRUE, uses |-> 0]
  IN [g EXCEPT !.nodes = Append(@, node),
               !.ports = @ \o [i \in 1..numPorts |->
                                 [node |-> id, index |-> i - 1, wire |-> 0]]]

\* the id of the node the last addNodeInternal created
Last(g) == Len(g.nodes)

NewFan(g) == addNodeInternal(g, "Fan", 3, 0, <<>>)
NewEraser(g) == addNodeInternal(g, "Eraser", 1, 0, <<>>)
NewVar(g) == addNodeInternal(g, "Var", 1, 0, <<>>)
NewReplicator(g, level, deltas) ==
  addNodeInternal(g, "Replicator", 1 + Len(deltas), level, deltas)

\* SetDead as a plain store: the claim succeeds whatever the flag holds
SetDeadAlways(g, n) == TRUE

SetDeadOk(g, n) == g.nodes[n].dead = 0
SetDead(g, n) == [g EXCEPT !.nodes[n].dead = 1]

\* Revive that leaves the flag set
ReviveNot(g, n) == g

Revive(g, n) == [g EXCEPT !.nodes[n].dead = 0]

(* ---------------------------- scheduler ------------------------------- *)
\* every wire in bucket 0, whatever its depth
ClampFlat(depth) == 0

Clamp(depth) ==
  IF depth < 0 THEN 0
  ELSE IF depth >= MaxPriority THEN MaxPriority - 1
  ELSE depth

\* Push: the send on the bucket blocks while the bucket is full.
Push(g, w, depth) ==
  LET d == Clamp(depth) IN
  IF Len(g.queues[d]) >= QueueCap
  THEN [g EXCEPT !.hang = TRUE]
  ELSE [g EXCEPT !.queues[d] = Append(@, w),
                 !.signal = IF @ < SignalCap THEN @ + 1 ELSE @]

\* n.wg.Add(1); n.scheduler.Push(w, depth)
\* a push that is not counted in the wait group
ScheduleNoAdd(g, w, depth) == Push(g, w, depth)

Schedule(g, w, depth) == Push([g EXCEPT !.wg = @ + 1], w, depth)

(* ------------------------- wire primitives ---------------------------- *)
isActive(g, n) == Type(g, n) # "Var"

Other(g, w, p) ==
  IF g.wires[w].P0 = p THEN g.wires[w].P1 ELSE g.wires[w].P0

ActiveEnds(g, p, q) ==
  /\ p # 0 /\ q # 0
  /\ IndexAt(g, p) = 0 /\ IndexAt(g, q) = 0
  /\ isActive(g, NodeAt(g, p)) /\ isActive(g, NodeAt(g, q))

LinkAt(g, node1, port1, node2, port2, depth) ==
  LET p1 == PortOf(g, node1, port1)
      p2 == PortOf(g, node2, port2)
      w == Len(g.wires) + 1
      g1 == [g EXCEPT !.wires = Append(@, [P0 |-> p1, P1 |-> p2, depth |-> depth])]
      g2 == [g1 EXCEPT !.ports[p1].wire = w]
      g3 == [g2 EXCEPT !.ports[p2].wire = w]
  IN IF port1 = 0 /\ port2 = 0 /\ isActive(g, node1) /\ isActive(g, node2)
     THEN Schedule(g3, w, depth)
     ELSE g3

Link(g, node1, port1, node2, port2) == LinkAt(g, node1, port1, node2, port2, 0)

\* connect that gives the new wire the depth of the pair
connectFlat(g, p1, p2, depth) ==
  LET newDepth == depth
      w == Len(g.wires) + 1
      g1 == [g EXCEPT !.wires = Append(@, [P0 |-> p1, P1 |-> p2, depth |-> newDepth])]
      g2 == [g1 EXCEPT !.ports[p1].wire = w]
      g3 == [g2 EXCEPT !.ports[p2].wire = w]
  IN IF ActiveEnds(g3, p1, p2) THEN Schedule(g3, w, newDepth) ELSE g3

connect(g, p1, p2, depth) ==
  LET newDepth == depth + 1
      w == Len(g.wires) + 1
      g1 == [g EXCEPT !.wires = Append(@, [P0 |-> p1, P1 |-> p2, depth |-> newDepth])]
      g2 == [g1 EXCEPT !.ports[p1].wire = w]
      g3 == [g2 EXCEPT !.ports[p2].wire = w]
  IN IF ActiveEnds(g3, p1, p2) THEN Schedule(g3, w, newDepth) ELSE g3

\* splice that schedules the wire whenever the new port is a principal port
spliceEager(g, pNew, pOld) ==
  LET w == WireAt(g, pOld) IN
  IF w = 0 THEN g
  ELSE IF g.wires[w].P0 # pOld /\ g.wires[w].P1 # pOld
  THEN [g EXCEPT !.hang = TRUE]
  ELSE
    LET g1 == [g EXCEPT !.ports[pNew].wire = w]
        g2 == IF g1.wires[w].P0 = pOld
              THEN [g1 EXCEPT !.wires[w].P0 = pNew]
              ELSE [g1 EXCEPT !.wires[w].P1 = pNew]
        g3 == [g2 EXCEPT !.ports[pOld].wire = 0]
    IN IF IndexAt(g3, pNew) = 0
       THEN Schedule(g3, w, g3.wires[w].depth)
       ELSE g3

\* splice: pNew replaces pOld in pOld's wire.  When pOld references a wire
\* that does not have pOld as an endpoint the retry loop never exits.
splice(g, pNew, pOld) ==
  LET w == WireAt(g, pOld) IN
  IF w = 0 THEN g
  ELSE IF g.wires[w].P0 # pOld /\ g.wires[w].P1 # pOld
  THEN [g EXCEPT !.hang = TRUE]
  ELSE
    LET g1 == [g EXCEPT !.ports[pNew].wire = w]
        g2 == IF g1.wires[w].P0 = pOld
              THEN [g1 EXCEPT !.wires[w].P0 = pNew]
              ELSE [g1 EXCEPT !.wires[w].P1 = pNew]
        g3 == [g2 EXCEPT !.ports[pOld].wire = 0]
        neighbor == Other(g3, w, pNew)
    IN IF ActiveEnds(g3, pNew, neighbor)
       THEN Schedule(g3, w, g3.wires[w].depth)
       ELSE g3

fuse(g, p1, p2) ==
  LET w1 == WireAt(g, p1)
      w2 == WireAt(g, p2)
  IN
  IF w1 = 0 \/ w2 = 0 THEN g
  ELSE
    LET neighborP1 == Other(g, w1, p1)
        neighborP2 == Other(g, w2, p2)
    IN
    IF w1 = w2
    THEN LET ga == [g EXCEPT !.ports[p1].wire = 0]
             gb == [ga EXCEPT !.ports[p2].wire = 0]
         IN [gb EXCEPT !.wires[w1].P0 = 0, !.wires[w1].P1 = 0]
    ELSE
      LET g1 == IF neighborP2 # 0
                THEN [g EXCEPT !.ports[neighborP2].wire = w1]
                ELSE g
          g2 == IF g1.wires[w1].P0 = p1
                THEN [g1 EXCEPT !.wires[w1].P0 = neighborP2]
                ELSE [g1 EXCEPT !.wires[w1].P1 = neighborP2]
          g3 == [g2 EXCEPT !.ports[p1].wire = 0]
          g4 == [g3 EXCEPT !.ports[p2].wire = 0]
          g5 == [g4 EXCEPT !.wires[w2].P0 = 0, !.wires[w2].P1 = 0]
      IN IF ActiveEnds(g5, neighborP1, neighborP2)
         THEN Schedule(g5, w1, g5.wires[w1].depth)
         ELSE g5

(* ----------------------------- trace ----------------------------------- *)
\* b = 0 is a nil Node: BType and BID keep their zero values (NodeTypeFan, 0).
recordTrace(g, rule, a, b) ==
  IF ~g.trace.on \/ g.trace.cap = 0 THEN g
  ELSE
    LET idx == g.trace.idx
        g1 == [g EXCEPT !.trace.idx = @ + 1]
    IN IF idx >= g.trace.cap THEN g1
       ELSE [g1 EXCEPT !.trace.buf =
               Append(@, [Step |-> idx, Rule |-> rule,
                          AType |-> Type(g, a), AID |-> a,
                          BType |-> IF b = 0 THEN "Fan" ELSE Type(g, b),
                          BID |-> b])]

(* --------------------------- rewrite rules ---------------------------- *)
removeNode(g, n) == g

RECURSIVE annihilateLoop(_, _, _, _, _)
annihilateLoop(g, a, b, i, count) ==
  IF i >= count THEN g
  ELSE annihilateLoop(fuse(g, PortOf(g, a, i), PortOf(g, b, i)), a, b, i + 1, count)

\* annihilate with the auxiliary ports of two fans paired crosswise
annihilateCrossed(g, a, b) ==
  IF NumPorts(g, a) = 3 /\ NumPorts(g, b) = 3
  THEN fuse(fuse(g, PortOf(g, a, 1), PortOf(g, b, 2)), PortOf(g, a, 2), PortOf(g, b, 1))
  ELSE annihilateLoop(g, a, b, 1,
         IF NumPorts(g, b) < NumPorts(g, a) THEN NumPorts(g, b) ELSE NumPorts(g, a))

annihilate(g, a, b) ==
  LET count == IF NumPorts(g, b) < NumPorts(g, a) THEN NumPorts(g, b) ELSE NumPorts(g, a)
  IN annihilateLoop(g, a, b, 1, count)

RECURSIVE eraseLoop(_, _, _)
eraseLoop(g, victim, i) ==
  IF i >= NumPorts(g, victim) THEN g
  ELSE LET g1 == NewEraser(g)
           newEra == Last(g1)
       IN eraseLoop(splice(g1, PortOf(g1, newEra, 0), PortOf(g1, victim, i)), victim, i + 1)

\* erase that leaves the last auxiliary port of the victim alone
eraseButLast(g, eraser, victim) ==
  LET last == NumPorts(g, victim) - 1
      g1 == eraseLoop(g, victim, 1)
  IN IF last < 1 THEN g1
     ELSE [g1 EXCEPT !.ports[PortOf(g, victim, last)].wire =
                        WireAt(g, PortOf(g, victim, last))]

erase(g, eraser, victim) == removeNode(removeNode(eraseLoop(g, victim, 1), eraser), victim)

createFanCopy(g) == NewFan(g)
createReplicatorCopy(g, original) == NewReplicator(g, Level(g, original), Deltas(g, original))
createReplicatorCopyWithLevel(g, original, newLevel) == NewReplicator(g, newLevel, Deltas(g, original))

\* splice guarded by "if pOld.Wire.Load() != nil"
spliceIfWired(g, pNew, pOld) == IF WireAt(g, pOld) # 0 THEN splice(g, pNew, pOld) ELSE g

RECURSIVE commuteFanRepLoop(_, _, _, _, _, _)
commuteFanRepLoop(g, rep, r1, r2, depth, i) ==
  IF i >= NumPorts(g, rep) - 1 THEN g
  ELSE
    LET g1 == createFanCopy(g)
        f == Last(g1)
        g2 == spliceIfWired(g1, PortOf(g1, f, 0), PortOf(g1, rep, i + 1))
        g3 == connect(g2, PortOf(g2, f, 1), PortOf(g2, r1, i + 1), depth)
        g4 == connect(g3, PortOf(g3, f, 2), PortOf(g3, r2, i + 1), depth)
    IN commuteFanRepLoop(g4, rep, r1, r2, depth, i + 1)

\* commuteFanReplicator with the principals of the two copies exchanged
commuteFanReplicatorSwapped(g, fan, rep, depth) ==
  LET g1 == createReplicatorCopy(g, rep)
      r1 == Last(g1)
      g2 == createReplicatorCopy(g1, rep)
      r2 == Last(g2)
      g3 == spliceIfWired(g2, PortOf(g2, r2, 0), PortOf(g2, fan, 1))
      g4 == spliceIfWired(g3, PortOf(g3, r1, 0), PortOf(g3, fan, 2))
  IN commuteFanRepLoop(g4, rep, r1, r2, depth, 0)

commuteFanReplicator(g, fan, rep, depth) ==
  LET g1 == createReplicatorCopy(g, rep)
      r1 == Last(g1)
      g2 == createReplicatorCopy(g1, rep)
      r2 == Last(g2)
      g3 == spliceIfWired(g2, PortOf(g2, r1, 0), PortOf(g2, fan, 1))
      g4 == spliceIfWired(g3, PortOf(g3, r2, 0), PortOf(g3, fan, 2))
  IN commuteFanRepLoop(g4, rep, r1, r2, depth, 0)

auxFanReplication(g, fan, rep, depth) == commuteFanReplicator(g, fan, rep, depth)

\* the first loop of commuteReplicators with every copy at the level of b
RECURSIVE commuteRepBLoopFlat(_, _, _, _, _)
commuteRepBLoopFlat(g, a, b, i, copies) ==
  IF i >= NumPorts(g, a) - 1 THEN [g |-> g, copies |-> copies]
  ELSE
    LET g1 == createReplicatorCopyWithLevel(g, b, Level(g, b))
        bCopy == Last(g1)
        g2 == spliceIfWired(g1, PortOf(g1, bCopy, 0), PortOf(g1, a, i + 1))
    IN commuteRepBLoopFlat(g2, a, b, i + 1, Append(copies, bCopy))

\* first loop of commuteReplicators: the copies of b; `copies' collects bCopies
RECURSIVE commuteRepBLoop(_, _, _, _, _)
commuteRepBLoop(g, a, b, i, copies) ==
  IF i >= NumPorts(g, a) - 1 THEN [g |-> g, copies |-> copies]
  ELSE
    LET delta == Deltas(g, a)[i + 1]
        g1 == createReplicatorCopyWithLevel(g, b, Level(g, b) + delta)
        bCopy == Last(g1)
        g2 == spliceIfWired(g1, PortOf(g1, bCopy, 0), PortOf(g1, a, i + 1))
    IN commuteRepBLoop(g2, a, b, i + 1, Append(copies, bCopy))

RECURSIVE commuteRepConnect(_, _, _, _, _, _)
commuteRepConnect(g, aCopy, bCopies, i, depth, k) ==
  IF k >= Len(bCopies) THEN g
  ELSE commuteRepConnect(
         connect(g, PortOf(g, aCopy, k + 1), PortOf(g, bCopies[k + 1], i + 1), depth),
         aCopy, bCopies, i, depth, k + 1)

RECURSIVE commuteRepALoop(_, _, _, _, _, _)
commuteRepALoop(g, a, b, bCopies, depth, i) ==
  IF i >= NumPorts(g, b) - 1 THEN g
  ELSE
    LET g1 == createReplicatorCopy(g, a)
        aCopy == Last(g1)
        g2 == spliceIfWired(g1, PortOf(g1, aCopy, 0), PortOf(g1, b, i + 1))
        g3 == commuteRepConnect(g2, aCopy, bCopies, i, depth, 0)
    IN commuteRepALoop(g3, a, b, bCopies, depth, i + 1)

commuteReplicators(g, a0, b0, depth) ==
  LET a == IF Level(g, a0) > Level(g, b0) THEN b0 ELSE a0
      b == IF Level(g, a0) > Level(g, b0) THEN a0 ELSE b0
      r == commuteRepBLoop(g, a, b, 0, <<>>)
  IN commuteRepALoop(r.g, a, b, r.copies, depth, 0)

\* the statistics with a phase-2 fan replication counted as a commutation
BumpCommutation(g, counter) ==
  [g EXCEPT !.stats[IF counter = "statAuxFanRep" THEN "statFanRepComm" ELSE counter] = @ + 1]

Bump(g, counter) == [g EXCEPT !.stats[counter] = @ + 1]

\* reducePair from "Disconnect to prevent double processing" to the end:
\* both agents are claimed, w is the popped wire with endpoints p0, p1.
dispatch(g0, w, ph) ==
  LET p0 == g0.wires[w].P0
      p1 == g0.wires[w].P1
      a == NodeAt(g0, p0)
      b == NodeAt(g0, p1)
      depth == g0.wires[w].depth
      ga == [g0 EXCEPT !.wires[w].P0 = 0, !.wires[w].P1 = 0]
      gb == [ga EXCEPT !.ports[p0].wire = 0]
      gc == [gb EXCEPT !.ports[p1].wire = 0]
      g == Bump(gc, "ops")
      ta == Type(g, a)
      tb == Type(g, b)
  IN
  IF ta = tb THEN
    IF ta = "Replicator" THEN
      IF Level(g, a) = Level(g, b)
      THEN recordTrace(annihilate(Bump(g, "statRepAnn"), a, b), "RuleRepRep", a, b)
      ELSE recordTrace(commuteReplicators(Bump(g, "statRepComm"), a, b, depth), "RuleRepRepComm", a, b)
    ELSE recordTrace(annihilate(Bump(g, "statFanAnn"), a, b), "RuleFanFan", a, b)
  ELSE IF ta = "Eraser" \/ tb = "Eraser" THEN
    IF ta = "Eraser"
    THEN recordTrace(erase(Bump(g, "statErasure"), a, b), "RuleErasure", a, b)
    ELSE recordTrace(erase(Bump(g, "statErasure"), b, a), "RuleErasure", a, b)
  ELSE IF (ta = "Fan" /\ tb = "Replicator") \/ (ta = "Replicator" /\ tb = "Fan") THEN
    IF ph = 2 THEN
      IF ta = "Fan"
      THEN recordTrace(auxFanReplication(Bump(g, "statAuxFanRep"), a, b, depth), "RuleAuxFanRep", a, b)
      ELSE recordTrace(auxFanReplication(Bump(g, "statAuxFanRep"), b, a, depth), "RuleAuxFanRep", a, b)
    ELSE
      IF ta = "Fan"
      THEN recordTrace(commuteFanReplicator(Bump(g, "statFanRepComm"), a, b, depth), "RuleFanRep", a, b)
      ELSE recordTrace(commuteFanReplicator(Bump(g, "statFanRepComm"), b, a, depth), "RuleFanRep", a, b)
  ELSE recordTrace(g, "RuleUnknown", a, b)

(* -------------------------- canonical rules --------------------------- *)
RECURSIVE spliceAll(_, _, _, _)
\* splices port j of newRep, j = from.., into the old ports, in order
spliceAll(g, newRep, oldPorts, j) ==
  IF j > Len(oldPorts) THEN g
  ELSE spliceAll(spliceIfWired(g, PortOf(g, newRep, j), oldPorts[j]), newRep, oldPorts, j + 1)

\* the merge with repB's deltas copied, repA's delta not added to them
mergedDeltasNoOffset(dA, dB, auxIndexA) ==
  SubSeq(dA, 1, auxIndexA) \o dB \o SubSeq(dA, auxIndexA + 2, Len(dA))

mergedDeltas(dA, dB, auxIndexA) ==
  SubSeq(dA, 1, auxIndexA)
    \o [j \in 1..Len(dB) |-> dA[auxIndexA + 1] + dB[j]]
    \o SubSeq(dA, auxIndexA + 2, Len(dA))

\* the old aux ports in the order the merge assigns them to newRep's aux ports
mergedPorts(g, repA, repB, auxIndexA) ==
  [k \in 1..auxIndexA |-> PortOf(g, repA, k)]
    \o [j \in 1..Len(Deltas(g, repB)) |-> PortOf(g, repB, j)]
    \o [k \in 1..(Len(Deltas(g, repA)) - auxIndexA - 1) |-> PortOf(g, repA, auxIndexA + 1 + k)]

mergeReplicators(g, repA, repB, auxIndexA) ==
  LET newDeltas == mergedDeltas(Deltas(g, repA), Deltas(g, repB), auxIndexA)
      g1 == NewReplicator(g, Level(g, repA), newDeltas)
      newRep == Last(g1)
      g2 == spliceIfWired(g1, PortOf(g1, newRep, 0), PortOf(g1, repA, 0))
      g3 == spliceAll(g2, newRep, mergedPorts(g2, repA, repB, auxIndexA), 1)
  IN recordTrace(Bump(g3, "statRepMerge"), "RuleRepMerge", repA, repB)

\* reduceRepMerge up to the claim: the first aux index i >= 1 of rep whose
\* wire leads to the principal port of a replicator of the matching level,
\* 0 when there is none.
RECURSIVE mergeCandidate(_, _, _)
mergeCandidate(g, rep, i) ==
  IF i >= NumPorts(g, rep) THEN 0
  ELSE
    LET p == PortOf(g, rep, i)
        w == WireAt(g, p)
        other == IF w = 0 THEN 0 ELSE Other(g, w, p)
    IN IF /\ other # 0
          /\ Type(g, NodeAt(g, other)) = "Replicator"
          /\ IndexAt(g, other) = 0
          /\ Level(g, NodeAt(g, other)) = Level(g, rep) + Deltas(g, rep)[i]
       THEN i
       ELSE mergeCandidate(g, rep, i + 1)

\* reduceRepDecay that leaves the wire on the auxiliary port of rep
decayBodyKeepAux(g, rep) ==
  LET p0 == PortOf(g, rep, 0)
      p1 == PortOf(g, rep, 1)
      w0 == WireAt(g, p0)
      w1 == WireAt(g, p1)
  IN
  IF w0 = 0 \/ w1 = 0 THEN Revive(g, rep)
  ELSE
    LET neighbor0 == Other(g, w0, p0)
        neighbor1 == Other(g, w1, p1)
        g1 == IF neighbor1 # 0 THEN [g EXCEPT !.ports[neighbor1].wire = w0] ELSE g
        g2 == IF g1.wires[w0].P0 = p0
              THEN [g1 EXCEPT !.wires[w0].P0 = neighbor1]
              ELSE [g1 EXCEPT !.wires[w0].P1 = neighbor1]
        g3 == [g2 EXCEPT !.ports[p0].wire = 0]
        g6 == IF ActiveEnds(g3, neighbor0, neighbor1)
              THEN Schedule(g3, w0, g3.wires[w0].depth)
              ELSE g3
    IN recordTrace(Bump(removeNode(g6, rep), "statRepDecay"), "RuleRepDecay", rep, 0)

\* reduceRepDecay after the claim succeeded
decayBody(g, rep) ==
  LET p0 == PortOf(g, rep, 0)
      p1 == PortOf(g, rep, 1)
      w0 == WireAt(g, p0)
      w1 == WireAt(g, p1)
  IN
  IF w0 = 0 \/ w1 = 0 THEN Revive(g, rep)
  ELSE
    LET neighbor0 == Other(g, w0, p0)
        neighbor1 == Other(g, w1, p1)
        g1 == IF neighbor1 # 0 THEN [g EXCEPT !.ports[neighbor1].wire = w0] ELSE g
        g2 == IF g1.wires[w0].P0 = p0
              THEN [g1 EXCEPT !.wires[w0].P0 = neighbor1]
              ELSE [g1 EXCEPT !.wires[w0].P1 = neighbor1]
        g3 == [g2 EXCEPT !.ports[p0].wire = 0]
        g4 == [g3 EXCEPT !.ports[p1].wire = 0]
        g5 == [g4 EXCEPT !.wires[w1].P0 = 0, !.wires[w1].P1 = 0]
        g6 == IF ActiveEnds(g5, neighbor0, neighbor1)
              THEN Schedule(g5, w0, g5.wires[w0].depth)
              ELSE g5
    IN recordTrace(Bump(removeNode(g6, rep), "statRepDecay"), "RuleRepDecay", rep, 0)

\* rotateFan without the check for a new active pair
rotateFanSilent(g, fan) ==
  LET p0 == PortOf(g, fan, 0)
      p1 == PortOf(g, fan, 1)
      p2 == PortOf(g, fan, 2)
      g1 == [g EXCEPT !.nodes[fan].ports = <<p1, p2, p0>>]
  IN [g1 EXCEPT !.ports[p1].index = 0, !.ports[p2].index = 1, !.ports[p0].index = 2]

\* rotateFan shifting the ports the other way round
rotateFanBack(g, fan) ==
  LET p0 == PortOf(g, fan, 0)
      p1 == PortOf(g, fan, 1)
      p2 == PortOf(g, fan, 2)
      g1 == [g EXCEPT !.nodes[fan].ports = <<p2, p0, p1>>]
      g2 == [g1 EXCEPT !.ports[p2].index = 0, !.ports[p0].index = 1, !.ports[p1].index = 2]
      w == WireAt(g2, PortOf(g2, fan, 0))
      other == IF w = 0 THEN 0 ELSE Other(g2, w, PortOf(g2, fan, 0))
  IN IF /\ isActive(g2, fan)
        /\ w # 0
        /\ other # 0
        /\ IndexAt(g2, other) = 0
        /\ isActive(g2, NodeAt(g2, other))
     THEN Schedule(g2, w, g2.wires[w].depth)
     ELSE g2

rotateFan(g, fan) ==
  LET p0 == PortOf(g, fan, 0)
      p1 == PortOf(g, fan, 1)
      p2 == PortOf(g, fan, 2)
      g1 == [g EXCEPT !.nodes[fan].ports = <<p1, p2, p0>>]
      g2 == [g1 EXCEPT !.ports[p1].index = 0, !.ports[p2].index = 1, !.ports[p0].index = 2]
      w == WireAt(g2, PortOf(g2, fan, 0))
      other == IF w = 0 THEN 0 ELSE Other(g2, w, PortOf(g2, fan, 0))
  IN IF /\ isActive(g2, fan)
        /\ w # 0
        /\ other # 0
        /\ IndexAt(g2, other) = 0
        /\ isActive(g2, NodeAt(g2, other))
     THEN Schedule(g2, w, g2.wires[w].depth)
     ELSE g2

(* ------------------------ reachability pruning ------------------------ *)
\* nodes one wire away from node n (the traversal of Canonicalize)
Neighbours(g, n) ==
  { NodeAt(g, Other(g, WireAt(g, PortOf(g, n, i)), PortOf(g, n, i))) :
      i \in { j \in 0..(NumPorts(g, n) - 1) :
                /\ WireAt(g, PortOf(g, n, j)) # 0
                /\ Other(g, WireAt(g, PortOf(g, n, j)), PortOf(g, n, j)) # 0 } }

RECURSIVE Visit(_, _)
Visit(g, visited) ==
  LET next == visited \cup UNION { Neighbours(g, n) : n \in visited }
  IN IF next = visited THEN visited ELSE Visit(g, next)

\* the inner loop of Canonicalize over the ports of one unvisited node
RECURSIVE pruneNode(_, _, _)
pruneNode(g, node, i) ==
  IF i >= NumPorts(g, node) THEN removeNode(g, node)
  ELSE IF WireAt(g, PortOf(g, node, i)) = 0 THEN pruneNode(g, node, i + 1)
  ELSE LET g1 == NewEraser(g)
           newEra == Last(g1)
       IN pruneNode(splice(g1, PortOf(g1, newEra, 0), PortOf(g1, node, i)), node, i + 1)

\* CollectGarbage: dead nodes leave the registry
CollectGarbage(g) ==
  [g EXCEPT !.nodes = [n \in DOMAIN g.nodes |->
                         IF g.nodes[n].dead = 1 THEN [g.nodes[n] EXCEPT !.reg = FALSE]
                         ELSE g.nodes[n]]]

Registry(g) == { n \in DOMAIN g.nodes : g.nodes[n].reg }

(* ----------------------- the nets the caller builds ------------------- *)
\* One construction call: <<"F">> NewFan, <<"E">> NewEraser, <<"V">> NewVar,
\* <<"R", level, deltas>> NewReplicator, <<"L", n1, p1, n2, p2, depth>> LinkAt.
ApplyOp(g, op) ==
  IF op[1] = "F" THEN NewFan(g)
  ELSE IF op[1] = "E" THEN NewEraser(g)
  ELSE IF op[1] = "V" THEN NewVar(g)
  ELSE IF op[1] = "R" THEN NewReplicator(g, op[2], op[3])
  ELSE LinkAt(g, op[2], op[3], op[4], op[5], op[6])

\* TestLMO_ErasureOfDivergingTerm: (\x. y) ((\z. z z) (\z. z z)); root is node 12, y node 2
KOmegaOps ==
  << <<"F">>, <<"V">>, <<"E">>, <<"L", 1, 1, 2, 0, 0>>, <<"L", 1, 2, 3, 0, 0>>,
     <<"F">>, <<"F">>, <<"L", 4, 1, 5, 1, 1>>, <<"R", 0, <<0, 0>> >>,
     <<"L", 6, 0, 4, 2, 1>>, <<"L", 6, 1, 5, 0, 1>>, <<"L", 6, 2, 5, 2, 1>>,
     <<"F">>, <<"F">>, <<"L", 7, 1, 8, 1, 2>>, <<"R", 0, <<0, 0>> >>,
     <<"L", 9, 0, 7, 2, 2>>, <<"L", 9, 1, 8, 0, 2>>, <<"L", 9, 2, 8, 2, 2>>,
     <<"F">>, <<"L", 10, 0, 4, 0, 1>>, <<"L", 10, 2, 7, 0, 2>>,
     <<"F">>, <<"L", 11, 0, 1, 0, 0>>, <<"L", 11, 2, 10, 1, 1>>,
     <<"V">>, <<"L", 11, 1, 12, 0, 0>> >>

\* TestReplicatorUnpairedMerge: a(3,[2]) aux 1 -> principal of b(5,[0]); root is node 3
MergeOps ==
  << <<"R", 3, <<2>> >>, <<"R", 5, <<0>> >>, <<"L", 1, 1, 2, 0, 0>>,
     <<"V">>, <<"L", 1, 0, 3, 0, 0>>, <<"V">>, <<"L", 2, 1, 4, 0, 0>> >>

\* TestErasureCanonicalizes: (\x. a) b; output is node 6
KAppOps ==
  << <<"F">>, <<"F">>, <<"V">>, <<"V">>, <<"E">>, <<"L", 1, 1, 5, 0, 0>>,
     <<"L", 1, 2, 3, 0, 0>>, <<"L", 2, 0, 1, 0, 0>>, <<"L", 2, 1, 4, 0, 0>>,
     <<"V">>, <<"L", 2, 2, 6, 0, 0>> >>

\* An Eraser-Fan pair at depth 0 whose fan has an eraser on aux 1, so that
\* erasing the fan makes a new pair at depth 0, and an Eraser-Eraser pair at
\* depth 1 (the layout of TestLeftmostPrefersRootFanFan: a root pair and a
\* deeper pair); root is node 4
TwoDepthOps ==
  << <<"E">>, <<"F">>, <<"E">>, <<"V">>,
     <<"L", 2, 1, 3, 0, 0>>, <<"L", 2, 2, 4, 0, 0>>,
     <<"E">>, <<"E">>, <<"L", 5, 0, 6, 0, 1>>,
     <<"L", 1, 0, 2, 0, 0>> >>

\* Replicators of equal level and different arity, principal to principal
RepArityOps ==
  << <<"R", 0, <<0>> >>, <<"R", 0, <<0, 0>> >>, <<"V">>, <<"V">>, <<"V">>,
     <<"L", 1, 1, 3, 0, 0>>, <<"L", 2, 1, 4, 0, 0>>, <<"L", 2, 2, 5, 0, 0>>,
     <<"L", 1, 0, 2, 0, 0>> >>

\* TestLeftmostPrefersRootFanRep (root pair): Fan against Replicator(1,[0,0])
FanRepOps ==
  << <<"F">>, <<"V">>, <<"V">>, <<"L", 1, 1, 2, 0, 0>>, <<"L", 1, 2, 3, 0, 0>>,
     <<"R", 1, <<0, 0>> >>, <<"V">>, <<"V">>, <<"L", 4, 1, 5, 0, 0>>,
     <<"L", 4, 2, 6, 0, 0>>, <<"L", 1, 0, 4, 0, 0>> >>

\* A unit replicator between an eraser (at its principal) and a fan principal:
\* the pair Eraser-Replicator is pending while the replicator can decay
DecayOps ==
  << <<"E">>, <<"R", 0, <<0>> >>, <<"F">>, <<"V">>, <<"V">>,
     <<"L", 3, 1, 4, 0, 0>>, <<"L", 3, 2, 5, 0, 0>>,
     <<"L", 2, 1, 3, 0, 0>>, <<"L", 1, 0, 2, 0, 0>> >>

\* A fan between replicator a(0,[1]) (on the fan's principal) and replicator
\* b(1,[5]) (principal on the fan's aux 1): only the phase-2 rotation makes
\* Fan-b a pair, and its copies of b can merge into a; root is node 4
LateMergeOps ==
  << <<"R", 0, <<1>> >>, <<"F">>, <<"R", 1, <<5>> >>, <<"V">>, <<"V">>, <<"V">>,
     <<"L", 1, 0, 4, 0, 0>>, <<"L", 1, 1, 2, 0, 0>>, <<"L", 2, 1, 3, 0, 0>>,
     <<"L", 2, 2, 5, 0, 0>>, <<"L", 3, 1, 6, 0, 0>> >>

\* The replicators of TestReplicatorUnpairedMerge with an eraser on the
\* principal of a, and an Eraser-Eraser pair: a is wanted by the pair
\* Eraser-a and by the merge of a with b, b by the decay; root is node 4
ContendOps ==
  << <<"E">>, <<"R", 3, <<2>> >>, <<"R", 5, <<0>> >>, <<"V">>, <<"E">>, <<"E">>,
     <<"L", 2, 1, 3, 0, 0>>, <<"L", 3, 1, 4, 0, 0>>,
     <<"L", 1, 0, 2, 0, 0>>, <<"L", 5, 0, 6, 0, 0>> >>

\* (\z. z z) (\z. z z) as TestLMO_ErasureOfDivergingTerm builds it, alone
\* under the root: the application is the only active pair; root is node 8
OmegaOps ==
  << <<"F">>, <<"F">>, <<"L", 1, 1, 2, 1, 0>>, <<"R", 0, <<0, 0>> >>,
     <<"L", 3, 0, 1, 2, 0>>, <<"L", 3, 1, 2, 0, 0>>, <<"L", 3, 2, 2, 2, 0>>,
     <<"F">>, <<"F">>, <<"L", 4, 1, 5, 1, 1>>, <<"R", 0, <<0, 0>> >>,
     <<"L", 6, 0, 4, 2, 1>>, <<"L", 6, 1, 5, 0, 1>>, <<"L", 6, 2, 5, 2, 1>>,
     <<"F">>, <<"L", 7, 0, 1, 0, 0>>, <<"L", 7, 2, 4, 0, 1>>,
     <<"V">>, <<"L", 7, 1, 8, 0, 0>> >>

\* A chain of three unpaired replicators, each on the only auxiliary port of
\* the one before: a (level 0, deltas [1]), b (level 1, deltas [1]) and
\* c (level 2, deltas [1]); Vars on the principal of a and on the auxiliary
\* port of c; root is node 4
ChainOps ==
  << <<"R", 0, <<1>> >>, <<"R", 1, <<1>> >>, <<"R", 2, <<1>> >>, <<"V">>, <<"V">>,
     <<"L", 1, 1, 2, 0, 0>>, <<"L", 2, 1, 3, 0, 0>>,
     <<"L", 4, 0, 1, 0, 0>>, <<"L", 5, 0, 3, 1, 0>> >>

\* The net of TestReplicatorStatusMergingConstraint with b one level above a:
\* a (level 3, deltas [2]) has b (level 4, deltas [1]) on its auxiliary port,
\* so 0 <= 4 - 3 <= 2; root is node 3
InsideOps ==
  << <<"R", 3, <<2>> >>, <<"R", 4, <<1>> >>, <<"L", 1, 1, 2, 0, 0>>,
     <<"V">>, <<"L", 1, 0, 3, 0, 0>>, <<"V">>, <<"L", 2, 1, 4, 0, 0>> >>

(* The nets of TestLeftmostPrefersRoot*: a root pair linked at depth 0 and
   an inner Fan-Fan pair linked at depth 1, every auxiliary port on a Var
   sink.  "X.inner" links the inner pair first (as the tests do), "X.root"
   the root pair first. *)
OrderNets ==
  {"FanFan.inner", "FanRep.inner", "EraFan.inner", "EraRep.inner", "RepRep.inner",
   "RepRepComm.inner", "FanFan.root", "FanRep.root", "EraFan.root", "EraRep.root",
   "RepRep.root", "RepRepComm.root"}

InnerFirst(name) ==
  name \in {"FanFan.inner", "FanRep.inner", "EraFan.inner", "EraRep.inner",
            "RepRep.inner", "RepRepComm.inner"}

\* the two agents of the root pair: F a fan, E an eraser, R1 and R2
\* replicators of level 1 and 2 with deltas [0, 0]
RootKinds(name) ==
  CASE name \in {"FanFan.inner", "FanFan.root"} -> <<"F", "F">>
    [] name \in {"FanRep.inner", "FanRep.root"} -> <<"F", "R1">>
    [] name \in {"EraFan.inner", "EraFan.root"} -> <<"E", "F">>
    [] name \in {"EraRep.inner", "EraRep.root"} -> <<"E", "R1">>
    [] name \in {"RepRep.inner", "RepRep.root"} -> <<"R1", "R1">>
    [] name \in {"RepRepComm.inner", "RepRepComm.root"} -> <<"R1", "R2">>

\* number of nodes newFanWithSinks / newReplicatorWithSinks / NewEraser make
SideSize(kind) == IF kind = "E" THEN 1 ELSE 3

\* the agent is node base + 1, its sinks are the two nodes after it
SideOps(kind, base) ==
  IF kind = "E" THEN << <<"E">> >>
  ELSE << IF kind = "F" THEN <<"F">>
          ELSE <<"R", IF kind = "R1" THEN 1 ELSE 2, <<0, 0>> >>,
          <<"V">>, <<"L", base + 1, 1, base + 2, 0, 0>>,
          <<"V">>, <<"L", base + 1, 2, base + 3, 0, 0>> >>

PairOps(kinds, base, depth) ==
  SideOps(kinds[1], base) \o SideOps(kinds[2], base + SideSize(kinds[1]))
    \o << <<"L", base + 1, 0, base + SideSize(kinds[1]) + 1, 0, depth>> >>

PairSize(kinds) == SideSize(kinds[1]) + SideSize(kinds[2])

OrderOps(name) ==
  LET inner == <<"F", "F">>
      root == RootKinds(name)
  IN IF InnerFirst(name)
     THEN PairOps(inner, 0, 1) \o PairOps(root, PairSize(inner), 0)
     ELSE PairOps(root, 0, 0) \o PairOps(inner, PairSize(root), 1)

\* the ids of the two agents of the root pair
RootPair(name) ==
  LET base == IF InnerFirst(name) THEN PairSize(<<"F", "F">>) ELSE 0
  IN {base + 1, base + SideSize(RootKinds(name)[1]) + 1}

(* One active pair per net, for the rewrite rules: agent a is node 1, agent b
   node 2, their principal ports are linked first (as TestFanAnnihilation,
   TestFanReplicatorCommutation, TestReplicatorMultiDelta and
   TestEraserPropagation do), then the auxiliary ports named by the wiring
   are linked to each other and every other auxiliary port gets a Var.
   Wirings: "ext" none, "self" a.1 - a.2, "same" a.1 - b.1, "cross" a.1 - b.2,
   "both" a.1 - a.2 and b.1 - b.2. *)
RulePairs ==
  [FF |-> << <<"F">>, <<"F">> >>,
   FR |-> << <<"F">>, <<"R", 2, <<1, 0>> >> >>,
   RF |-> << <<"R", 2, <<1, 0>> >>, <<"F">> >>,
   RRcomm |-> << <<"R", 10, <<5, 10>> >>, <<"R", 20, <<3>> >> >>,
   RRcommRev |-> << <<"R", 20, <<3>> >>, <<"R", 10, <<5, 10>> >> >>,
   RRann |-> << <<"R", 1, <<1, 2>> >>, <<"R", 1, <<3, 4>> >> >>,
   RRarity |-> << <<"R", 1, <<0>> >>, <<"R", 1, <<0, 0>> >> >>,
   RRneg |-> << <<"R", 0, <<-2>> >>, <<"R", 1, <<0>> >> >>,
   EF |-> << <<"E">>, <<"F">> >>,
   FE |-> << <<"F">>, <<"E">> >>,
   ER |-> << <<"E">>, <<"R", 1, <<0, 0>> >> >>,
   EE |-> << <<"E">>, <<"E">> >>]

RuleWirings ==
  [ext |-> <<>>,
   self |-> << <<1, 1, 1, 2>> >>,
   same |-> << <<1, 1, 2, 1>> >>,
   cross |-> << <<1, 1, 2, 2>> >>,
   both |-> << <<1, 1, 1, 2>>, <<2, 1, 2, 2>> >>]

RuleList ==
  << <<"FF.ext", "FF", "ext">>,
     <<"FF.self", "FF", "self">>,
     <<"FF.same", "FF", "same">>,
     <<"FF.cross", "FF", "cross">>,
     <<"FF.both", "FF", "both">>,
     <<"FR.ext", "FR", "ext">>,
     <<"FR.self", "FR", "self">>,
     <<"FR.same", "FR", "same">>,
     <<"FR.cross", "FR", "cross">>,
     <<"RF.ext", "RF", "ext">>,
     <<"RF.self", "RF", "self">>,
     <<"RRcomm.ext", "RRcomm", "ext">>,
     <<"RRcommRev.ext", "RRcommRev", "ext">>,
     <<"RRcomm.same", "RRcomm", "same">>,
     <<"RRann.ext", "RRann", "ext">>,
     <<"RRann.cross", "RRann", "cross">>,
     <<"RRarity.ext", "RRarity", "ext">>,
     <<"RRneg.ext", "RRneg", "ext">>,
     <<"EF.ext", "EF", "ext">>,
     <<"FE.self", "FE", "self">>,
     <<"FE.ext", "FE", "ext">>,
     <<"ER.ext", "ER", "ext">>,
     <<"EE.ext", "EE", "ext">> >>

RuleNets == { RuleList[k][1] : k \in DOMAIN RuleList }

RuleOps(name) ==
  LET entry == RuleList[CHOOSE k \in DOMAIN RuleList : RuleList[k][1] = name]
      pair == RulePairs[entry[2]]
      inner == RuleWirings[entry[3]]
      \* number of auxiliary ports of the agent a construction call makes
      AuxOf(op) == IF op[1] = "F" THEN 2 ELSE IF op[1] = "R" THEN Len(op[3]) ELSE 0
      used == UNION { {<<inner[k][1], inner[k][2]>>, <<inner[k][3], inner[k][4]>>} :
                      k \in DOMAIN inner }
      all == [k \in 1..(AuxOf(pair[1]) + AuxOf(pair[2])) |->
                IF k <= AuxOf(pair[1]) THEN <<1, k>> ELSE <<2, k - AuxOf(pair[1])>>]
      free == SelectSeq(all, LAMBDA e : e \notin used)
  IN pair \o << <<"L", 1, 0, 2, 0, 0>> >>
       \o [k \in DOMAIN inner |->
             <<"L", inner[k][1], inner[k][2], inner[k][3], inner[k][4], 0>>]
       \o [j \in 1..(2 * Len(free)) |->
             IF j % 2 = 1 THEN <<"V">>
             ELSE <<"L", free[j \div 2][1], free[j \div 2][2], 2 + (j \div 2), 0, 0>>]

\* number of Eraser-Eraser pairs linked after the root pair: QueueCap - 1, so
\* that bucket 0 holds QueueCap wires when the net is built
FullPairs == 1023

\* An Eraser-Fan pair whose fan has an eraser on each auxiliary port, linked
\* first, then FullPairs Eraser-Eraser pairs, every link at depth 0
FullOps ==
  << <<"E">>, <<"F">>, <<"L", 1, 0, 2, 0, 0>>, <<"E">>, <<"E">>,
     <<"L", 2, 1, 3, 0, 0>>, <<"L", 2, 2, 4, 0, 0>> >>
  \o [k \in 1..(3 * FullPairs) |->
        IF k % 3 = 0
        THEN <<"L", 3 + 2 * (k \div 3), 0, 4 + 2 * (k \div 3), 0, 0>>
        ELSE <<"E">>]

NetOps(name) ==
  CASE name = "Full" -> FullOps
    [] name = "KOmega" -> KOmegaOps
    [] name = "Merge" -> MergeOps
    [] name = "KApp" -> KAppOps
    [] name = "TwoDepth" -> TwoDepthOps
    [] name = "RepArity" -> RepArityOps
    [] name = "FanRep" -> FanRepOps
    [] name = "Decay" -> DecayOps
    [] name = "LateMerge" -> LateMergeOps
    [] name = "Contend" -> ContendOps
    [] name = "Omega" -> OmegaOps
    [] name = "Chain" -> ChainOps
    [] name = "Inside" -> InsideOps
    [] name \in OrderNets -> OrderOps(name)
    [] name \in RuleNets -> RuleOps(name)

\* the interface Var the caller reads the result from
RootOf(name) ==
  CASE name = "KOmega" -> 12
    [] name = "Merge" -> 3
    [] name = "KApp" -> 6
    [] name = "TwoDepth" -> 4
    [] name = "RepArity" -> 3
    [] name = "FanRep" -> 2
    [] name = "Decay" -> 4
    [] name = "LateMerge" -> 4
    [] name = "Contend" -> 4
    [] name = "Omega" -> 8
    [] name = "Chain" -> 4
    [] name = "Inside" -> 3

RECURSIVE DeepestFrom(_, _)
DeepestFrom(ops, i) ==
  IF i > Len(ops) THEN 0
  ELSE LET rest == DeepestFrom(ops, i + 1)
           d == IF ops[i][1] = "L" THEN ops[i][6] ELSE 0
       IN IF d > rest THEN d ELSE rest

\* the deepest wire of the net as built
DeepestLink(name) == DeepestFrom(NetOps(name), 1)

(* ------------------------------ threads ------------------------------- *)
\* Buckets a wire of the bounded model can be pushed to: those of the depths
\* the caller links at, and MaxDeepening more.  Every other bucket is empty
\* in every reachable state, so Pop's receive attempts on them are taken in
\* the same step as the next attempt on a live bucket.
LiveBuckets == 0..Clamp(DeepestLink(initNet) + MaxDeepening)

HasNextLive(i) == i + 1 \in LiveBuckets
NextLive(i) == i + 1

\* w.mu is held by a thread inside reducePair between its two claims
WireLocked(w) == \E t \in Threads : pc[t] = "claimB" /\ cur[t] = w

Return == /\ pc' = [pc EXCEPT ![Main] = Head(ret)]
          /\ ret' = Tail(ret)

\* Network.Start, as the effect on the program counters
StartedPc(label) ==
  [t \in Threads |->
     IF t = Main THEN label
     ELSE IF ~started /\ t <= workers THEN "pop"
     ELSE pc[t]]

(* Scheduler.Pop: one receive attempt that finds a wire *)
PopRecv(t) ==
  /\ pc[t] = "pop"
  /\ queues[scan[t]] # <<>>
  /\ cur' = [cur EXCEPT ![t] = Head(queues[scan[t]])]
  /\ queues' = [queues EXCEPT ![scan[t]] = Tail(@)]
  /\ pc' = [pc EXCEPT ![t] = "lock"]
  /\ UNCHANGED <<nodes, ports, wires, signal, wg, reductionMu, started, workers,
                 phase, stats, trace, hang, scan, ret, m, initNet>>

(* Scheduler.Pop: one receive attempt on an empty bucket *)
PopEmpty(t) ==
  /\ pc[t] = "pop"
  /\ queues[scan[t]] = <<>>
  /\ IF HasNextLive(scan[t])
     THEN scan' = [scan EXCEPT ![t] = NextLive(scan[t])] /\ pc' = pc
     ELSE scan' = scan /\ pc' = [pc EXCEPT ![t] = "wait"]
  /\ UNCHANGED <<nodes, ports, wires, queues, signal, wg, reductionMu, started,
                 workers, phase, stats, trace, hang, cur, ret, m, initNet>>

(* Scheduler.Pop: <-s.signal, then the scan starts again *)
PopSignal(t) ==
  /\ pc[t] = "wait"
  /\ signal > 0
  /\ signal' = signal - 1
  /\ scan' = [scan EXCEPT ![t] = 0]
  /\ pc' = [pc EXCEPT ![t] = "pop"]
  /\ UNCHANGED <<nodes, ports, wires, queues, wg, reductionMu, started, workers,
                 phase, stats, trace, hang, cur, ret, m, initNet>>

\* reducePair would return before claiming: an endpoint is nil or stale
Stale(g, w) ==
  \/ g.wires[w].P0 = 0
  \/ g.wires[w].P1 = 0
  \/ WireAt(g, g.wires[w].P0) # w
  \/ WireAt(g, g.wires[w].P1) # w

\* n.reductionMu.Unlock(); n.wg.Done(); then a worker loops, and
\* ReduceWithLimit makes its GC check and its loop test.  g is the network the
\* rewrite step left.
AfterPair(t, g) ==
  IF g.hang
  THEN /\ Commit(g)
       /\ pc' = [pc EXCEPT ![t] = "hang"]
       /\ UNCHANGED <<reductionMu, scan, cur, m>>
  ELSE
    LET g1 == [g EXCEPT !.wg = @ - 1]
        i2 == m.rwlI + 1
        g2 == IF t = Main /\ i2 % gcInterval = 0 THEN CollectGarbage(g1) ELSE g1
    IN /\ Commit(g2)
       /\ reductionMu' = -1
       /\ scan' = [scan EXCEPT ![t] = 0]
       /\ cur' = [cur EXCEPT ![t] = 0]
       /\ IF t # Main
          THEN pc' = [pc EXCEPT ![t] = "pop"] /\ m' = m
          ELSE IF i2 < m.rwlMax
          THEN /\ pc' = [pc EXCEPT ![t] = "pop"]
               /\ m' = [m EXCEPT !.rwlI = i2]
          ELSE /\ pc' = [pc EXCEPT ![t] = "RWL.end"]
               /\ m' = [m EXCEPT !.rwlI = i2]

(* n.reductionMu.Lock() and reducePair up to and including a.SetDead().
   When reducePair returns there (a nil or stale endpoint, a lost claim) the
   step runs on to the unlock and wg.Done. *)
BeginPair(t) ==
  /\ pc[t] = "lock"
  /\ reductionMu = -1
  /\ LET w == cur[t]
         a == NodeAt(G, wires[w].P0)
     IN IF Stale(G, w) \/ ~SetDeadOk(G, a)
        THEN AfterPair(t, G)
        ELSE /\ Commit(SetDead(G, a))
             /\ reductionMu' = t
             /\ pc' = [pc EXCEPT ![t] = "claimB"]
             /\ UNCHANGED <<scan, cur, m>>
  /\ UNCHANGED <<started, workers, phase, ret, initNet>>

Use(g, n) == [g EXCEPT !.nodes[n].uses = @ + 1]

NewWiresLive(g, g2) ==
  \A w \in (Len(g.wires) + 1)..Len(g2.wires) : Clamp(g2.wires[w].depth) \in LiveBuckets

(* reducePair from b.SetDead() to its end, then the unlock and wg.Done *)
FinishPair(t) ==
  /\ pc[t] = "claimB"
  /\ LET w == cur[t]
         a == NodeAt(G, wires[w].P0)
         b == NodeAt(G, wires[w].P1)
     IN \E g2 \in { IF SetDeadOk(G, b)
                     THEN dispatch(Use(Use(SetDead(G, b), a), b), w, phase)
                     ELSE Revive(G, a) } :
          /\ NewWiresLive(G, g2)
          /\ AfterPair(t, g2)
  /\ UNCHANGED <<started, workers, phase, ret, initNet>>

(* --------------------------- the API caller --------------------------- *)
NoLocals ==
  [built |-> 0, calls |-> 0, todo |-> {}, rep |-> 0, aux |-> 0, other |-> 0,
   startDecay |-> 0, startMerge |-> 0, changed |-> FALSE, prevOps |-> 0,
   rwlI |-> 0, rwlMax |-> 0, rwlStart |-> 0, rwlRet |-> -1]

CanCall == pc[Main] = "idle" /\ m.calls < MaxCalls

(* ReduceAll: n.Start() *)
ReduceAllFrom(label, back) ==
  /\ pc[Main] = label
  /\ pc' = StartedPc("RA.wait")
  /\ started' = TRUE
  /\ ret' = <<back>> \o ret

(* ReduceAll: n.wg.Wait() returns *)
ReduceAllWait ==
  /\ pc[Main] = "RA.wait"
  /\ wg = 0
  /\ Return
  /\ UNCHANGED <<nodes, ports, wires, queues, signal, wg, reductionMu, started,
                 workers, phase, stats, trace, hang, scan, cur, m, initNet>>

CallReduceAll ==
  /\ CanCall
  /\ ReduceAllFrom("idle", "idle")
  /\ m' = [m EXCEPT !.calls = @ + 1]
  /\ UNCHANGED <<nodes, ports, wires, queues, signal, wg, reductionMu, workers,
                 phase, stats, trace, hang, scan, cur, initNet>>

(* ReduceWithLimit up to the first Pop *)
CallReduceWithLimit(maxReductions) ==
  /\ CanCall
  /\ IF maxReductions = 0
     THEN /\ m' = [m EXCEPT !.calls = @ + 1, !.rwlMax = 0, !.rwlRet = 0,
                            !.rwlStart = stats.ops]
          /\ pc' = [pc EXCEPT ![Main] = "RWL.ret"]
          /\ UNCHANGED <<started, scan>>
     ELSE /\ m' = [m EXCEPT !.calls = @ + 1, !.rwlMax = maxReductions, !.rwlI = 0,
                            !.rwlStart = stats.ops, !.rwlRet = -1]
          /\ pc' = StartedPc("pop")
          /\ started' = TRUE
          /\ scan' = [scan EXCEPT ![Main] = 0]
  /\ UNCHANGED <<nodes, ports, wires, queues, signal, wg, reductionMu, workers,
                 phase, stats, trace, hang, cur, ret, initNet>>

(* ApplyCanonicalRules: the counters are read and the registry is copied.
   Only replicators whose principal port holds a wire are kept: the loop body
   does nothing for the others, and no step wires such a port again. *)
ApplyCanonicalRulesFrom(label, back) ==
  /\ pc[Main] = label
  /\ pc' = [pc EXCEPT ![Main] = "ACR.iter"]
  /\ ret' = <<back>> \o ret

SweepLocals(loc) ==
  [loc EXCEPT !.startDecay = stats.statRepDecay, !.startMerge = stats.statRepMerge,
              !.todo = { n \in Registry(G) : /\ Type(G, n) = "Replicator"
                                              /\ WireAt(G, PortOf(G, n, 0)) # 0 }]

CallApplyCanonicalRules ==
  /\ CanCall
  /\ ApplyCanonicalRulesFrom("idle", "idle")
  /\ m' = SweepLocals([m EXCEPT !.calls = @ + 1])
  /\ UNCHANGED <<nodes, ports, wires, queues, signal, wg, reductionMu, started,
                 workers, phase, stats, trace, hang, scan, cur, initNet>>

DecayShape(g, n) == NumPorts(g, n) = 2 /\ Deltas(g, n)[1] = 0

\* what the loop body of ApplyCanonicalRules does with node n before any claim
SweepKind(g, n) ==
  IF WireAt(g, PortOf(g, n, 0)) = 0 THEN "skip"
  ELSE IF DecayShape(g, n) THEN (IF SetDeadOk(g, n) THEN "decay" ELSE "skip")
  ELSE IF IsDead(g, n) THEN "skip"
  ELSE IF mergeCandidate(g, n, 1) = 0 THEN "skip"
  ELSE IF SetDeadOk(g, n) THEN "merge" ELSE "skip"

(* one iteration of the sweep that applies no rule *)
SweepSkip(n) ==
  /\ pc[Main] = "ACR.iter"
  /\ n \in m.todo
  /\ SweepKind(G, n) = "skip"
  /\ m' = [m EXCEPT !.todo = @ \ {n}]
  /\ UNCHANGED <<nodes, ports, wires, queues, signal, wg, reductionMu, started,
                 workers, phase, stats, trace, hang, pc, scan, cur, ret, initNet>>

(* reduceRepDecay: rep.SetDead() succeeds *)
DecayClaim(n) ==
  /\ pc[Main] = "ACR.iter"
  /\ n \in m.todo
  /\ SweepKind(G, n) = "decay"
  /\ nodes' = SetDead(G, n).nodes
  /\ m' = [m EXCEPT !.todo = @ \ {n}, !.rep = n]
  /\ pc' = [pc EXCEPT ![Main] = "ACR.decay"]
  /\ UNCHANGED <<ports, wires, queues, signal, wg, reductionMu, started, workers,
                 phase, stats, trace, hang, scan, cur, ret, initNet>>

Wired(g, n) == { WireAt(g, g.nodes[n].ports[i]) : i \in DOMAIN g.nodes[n].ports } \ {0}

(* reduceRepDecay after the claim, under the mutexes of the two wires *)
DecayBody ==
  /\ pc[Main] = "ACR.decay"
  /\ \A w \in Wired(G, m.rep) : ~WireLocked(w)
  /\ LET rep == m.rep
         edits == WireAt(G, PortOf(G, rep, 0)) # 0 /\ WireAt(G, PortOf(G, rep, 1)) # 0
         g2 == decayBody(IF edits THEN Use(G, rep) ELSE G, rep)
     IN /\ Commit(g2)
        /\ pc' = [pc EXCEPT ![Main] = IF g2.hang THEN "hang" ELSE "ACR.iter"]
  /\ m' = [m EXCEPT !.rep = 0, !.aux = 0, !.other = 0]
  /\ UNCHANGED <<reductionMu, started, workers, phase, scan, cur, ret, initNet>>

(* reduceRepMerge: a compatible neighbour is found and rep.SetDead() succeeds *)
MergeClaim(n) ==
  /\ pc[Main] = "ACR.iter"
  /\ n \in m.todo
  /\ SweepKind(G, n) = "merge"
  /\ LET i == mergeCandidate(G, n, 1)
         p == PortOf(G, n, i)
     IN m' = [m EXCEPT !.todo = @ \ {n}, !.rep = n, !.aux = i,
                       !.other = NodeAt(G, Other(G, WireAt(G, p), p))]
  /\ nodes' = SetDead(G, n).nodes
  /\ pc' = [pc EXCEPT ![Main] = "ACR.merge"]
  /\ UNCHANGED <<ports, wires, queues, signal, wg, reductionMu, started, workers,
                 phase, stats, trace, hang, scan, cur, ret, initNet>>

(* reduceRepMerge: otherRep.SetDead(), then mergeReplicators or the rollback *)
MergeBody ==
  /\ pc[Main] = "ACR.merge"
  /\ \A w \in Wired(G, m.rep) \cup Wired(G, m.other) : ~WireLocked(w)
  /\ LET g2 == IF SetDeadOk(G, m.other)
               THEN mergeReplicators(Use(Use(SetDead(G, m.other), m.rep), m.other),
                                     m.rep, m.other, m.aux - 1)
               ELSE Revive(G, m.rep)
     IN /\ Commit(g2)
        /\ pc' = [pc EXCEPT ![Main] = IF g2.hang THEN "hang" ELSE "ACR.iter"]
  /\ m' = [m EXCEPT !.rep = 0, !.aux = 0, !.other = 0]
  /\ UNCHANGED <<reductionMu, started, workers, phase, scan, cur, ret, initNet>>

(* ApplyCanonicalRules: n.wg.Wait() returns, the result is computed *)
SweepWait ==
  /\ pc[Main] = "ACR.iter"
  /\ m.todo = {}
  /\ wg = 0
  /\ m' = [m EXCEPT !.changed = \/ stats.statRepDecay > m.startDecay
                               \/ stats.statRepMerge > m.startMerge,
                    !.startDecay = 0, !.startMerge = 0]
  /\ Return
  /\ UNCHANGED <<nodes, ports, wires, queues, signal, wg, reductionMu, started,
                 workers, phase, stats, trace, hang, scan, cur, initNet>>

(* ReduceWithLimit after its loop: endCount is read, the difference returned *)
ReduceWithLimitEnd ==
  /\ pc[Main] = "RWL.end"
  /\ pc' = [pc EXCEPT ![Main] = "RWL.ret"]
  /\ m' = [m EXCEPT !.rwlRet = stats.ops - m.rwlStart]
  /\ UNCHANGED <<nodes, ports, wires, queues, signal, wg, reductionMu, started,
                 workers, phase, stats, trace, hang, scan, cur, ret, initNet>>

(* ReduceWithLimit has returned m.rwlRet to the caller *)
ReduceWithLimitReturn ==
  /\ pc[Main] = "RWL.ret"
  /\ pc' = [pc EXCEPT ![Main] = "idle"]
  /\ m' = [m EXCEPT !.rwlI = 0, !.rwlMax = 0, !.rwlStart = 0, !.rwlRet = -1]
  /\ UNCHANGED <<nodes, ports, wires, queues, signal, wg, reductionMu, started,
                 workers, phase, stats, trace, hang, scan, cur, ret, initNet>>

\* the fans of the registry with a wire on some port
WiredFans(g) == { n \in Registry(g) : Type(g, n) = "Fan" /\ Wired(g, n) # {} }

\* rotateFan on every fan of the registry that holds no wire: it permutes the
\* ports of that fan only, pushes nothing and is read by no other step, so
\* its place in the iteration order makes no difference
RECURSIVE rotateUnwired(_, _)
rotateUnwired(g, fans) ==
  IF fans = {} THEN g
  ELSE LET n == CHOOSE k \in fans : TRUE
       IN rotateUnwired(rotateFan(g, n), fans \ {n})

(* SetPhase: rotateAllFans copies the registry when the phase goes 1 -> 2;
   the iterations over fans without wires are taken in this step *)
SetPhaseFrom(label, back, p) ==
  /\ pc[Main] = label
  /\ IF p = 2 /\ phase = 1
     THEN /\ phase' = 2
          /\ pc' = [pc EXCEPT ![Main] = "SP.iter"]
          /\ ret' = <<back>> \o ret
          /\ \E g2 \in { rotateUnwired(G, { n \in Registry(G) : Type(G, n) = "Fan" }
                                            \ WiredFans(G)) } :
               nodes' = g2.nodes /\ ports' = g2.ports
     ELSE /\ phase' = p
          /\ pc' = [pc EXCEPT ![Main] = back]
          /\ ret' = ret
          /\ UNCHANGED <<nodes, ports>>

FanLocals(loc, p) ==
  IF p = 2 /\ phase = 1
  THEN [loc EXCEPT !.todo = WiredFans(G)]
  ELSE loc

CallSetPhase(p) ==
  /\ CanCall
  /\ SetPhaseFrom("idle", "idle", p)
  /\ m' = FanLocals([m EXCEPT !.calls = @ + 1], p)
  /\ UNCHANGED <<wires, queues, signal, wg, reductionMu, started,
                 workers, stats, trace, hang, scan, cur, initNet>>

(* rotateAllFans: one iteration *)
RotateStep(n) ==
  /\ pc[Main] = "SP.iter"
  /\ n \in m.todo
  /\ Commit(rotateFan(G, n))
  /\ m' = [m EXCEPT !.todo = @ \ {n}]
  /\ UNCHANGED <<reductionMu, started, workers, phase, pc, scan, cur, ret, initNet>>

RotateDone ==
  /\ pc[Main] = "SP.iter"
  /\ m.todo = {}
  /\ Return
  /\ UNCHANGED <<nodes, ports, wires, queues, signal, wg, reductionMu, started,
                 workers, phase, stats, trace, hang, scan, cur, m, initNet>>

(* Canonicalize: the traversal from root and the copy of the registry *)
CallCanonicalize(root) ==
  /\ CanCall
  /\ root \in DOMAIN nodes
  /\ Type(G, root) = "Var"
  /\ m' = [m EXCEPT !.calls = @ + 1,
                    !.todo = { n \in Registry(G) \ Visit(G, {root}) : Wired(G, n) # {} }]
  /\ pc' = [pc EXCEPT ![Main] = "CZ.iter"]
  /\ UNCHANGED <<nodes, ports, wires, queues, signal, wg, reductionMu, started,
                 workers, phase, stats, trace, hang, scan, cur, ret, initNet>>

(* Canonicalize: one unvisited node has its wires handed to fresh erasers *)
PruneStep(n) ==
  /\ pc[Main] = "CZ.iter"
  /\ n \in m.todo
  /\ \A w \in Wired(G, n) : ~WireLocked(w)
  /\ LET g2 == pruneNode(G, n, 0)
     IN /\ Commit(g2)
        /\ pc' = [pc EXCEPT ![Main] = IF g2.hang THEN "hang" ELSE "CZ.iter"]
  /\ m' = [m EXCEPT !.todo = @ \ {n}]
  /\ UNCHANGED <<reductionMu, started, workers, phase, scan, cur, ret, initNet>>

PruneDone ==
  /\ pc[Main] = "CZ.iter"
  /\ m.todo = {}
  /\ pc' = [pc EXCEPT ![Main] = "idle"]
  /\ UNCHANGED <<nodes, ports, wires, queues, signal, wg, reductionMu, started,
                 workers, phase, stats, trace, hang, scan, cur, ret, m, initNet>>

\* largest node id the caller passes to LinkAt after the net is built
MaxLinkNode == 2
\* largest port index the caller passes to LinkAt after the net is built
MaxLinkPort == 1

CallLinkAt(node1, port1, node2, port2, depth) ==
  /\ CanCall
  /\ node1 \in DOMAIN nodes /\ node2 \in DOMAIN nodes
  /\ port1 < NumPorts(G, node1) /\ port2 < NumPorts(G, node2)
  /\ PortOf(G, node1, port1) # PortOf(G, node2, port2)
  /\ Commit(LinkAt(G, node1, port1, node2, port2, depth))
  /\ m' = [m EXCEPT !.calls = @ + 1]
  /\ UNCHANGED <<reductionMu, started, workers, phase, pc, scan, cur, ret, initNet>>

(* ------------------------ ReduceToNormalForm -------------------------- *)
CallReduceToNormalForm ==
  /\ CanCall
  /\ SetPhaseFrom("idle", "RNF.loop", 1)
  /\ m' = [m EXCEPT !.calls = @ + 1]
  /\ UNCHANGED <<wires, queues, signal, wg, reductionMu, started,
                 workers, stats, trace, hang, scan, cur, initNet>>

RNFLoop ==
  /\ ReduceAllFrom("RNF.loop", "RNF.acr")
  /\ m' = [m EXCEPT !.prevOps = stats.ops]
  /\ UNCHANGED <<nodes, ports, wires, queues, signal, wg, reductionMu, workers,
                 phase, stats, trace, hang, scan, cur, initNet>>

RNFSweep ==
  /\ ApplyCanonicalRulesFrom("RNF.acr", "RNF.check")
  /\ m' = SweepLocals(m)
  /\ UNCHANGED <<nodes, ports, wires, queues, signal, wg, reductionMu, started,
                 workers, phase, stats, trace, hang, scan, cur, initNet>>

RNFRepeat ==
  /\ pc[Main] = "RNF.check"
  /\ ~(stats.ops = m.prevOps /\ ~m.changed)
  /\ pc' = [pc EXCEPT ![Main] = "RNF.loop"]
  /\ UNCHANGED <<nodes, ports, wires, queues, signal, wg, reductionMu, started,
                 workers, phase, stats, trace, hang, scan, cur, ret, m, initNet>>

RNFPhase2 ==
  /\ stats.ops = m.prevOps /\ ~m.changed
  /\ SetPhaseFrom("RNF.check", "RNF.ra2", 2)
  /\ m' = FanLocals(m, 2)
  /\ UNCHANGED <<wires, queues, signal, wg, reductionMu, started,
                 workers, stats, trace, hang, scan, cur, initNet>>

RNFReduce2 ==
  /\ ReduceAllFrom("RNF.ra2", "RNF.final")
  /\ UNCHANGED <<nodes, ports, wires, queues, signal, wg, reductionMu, workers,
                 phase, stats, trace, hang, scan, cur, m, initNet>>

RNFFinalSweep ==
  /\ ApplyCanonicalRulesFrom("RNF.final", "RNF.finalCheck")
  /\ m' = SweepLocals(m)
  /\ UNCHANGED <<nodes, ports, wires, queues, signal, wg, reductionMu, started,
                 workers, phase, stats, trace, hang, scan, cur, initNet>>

RNFFinalRepeat ==
  /\ pc[Main] = "RNF.finalCheck"
  /\ m.changed
  /\ pc' = [pc EXCEPT ![Main] = "RNF.final"]
  /\ UNCHANGED <<nodes, ports, wires, queues, signal, wg, reductionMu, started,
                 workers, phase, stats, trace, hang, scan, cur, ret, m, initNet>>

RNFFinish ==
  /\ pc[Main] = "RNF.finalCheck"
  /\ ~m.changed
  /\ pc' = [pc EXCEPT ![Main] = "RNF.ret"]
  /\ UNCHANGED <<nodes, ports, wires, queues, signal, wg, reductionMu, started,
                 workers, phase, stats, trace, hang, scan, cur, ret, m, initNet>>

RNFReturn ==
  /\ pc[Main] = "RNF.ret"
  /\ pc' = [pc EXCEPT ![Main] = "idle"]
  /\ m' = [m EXCEPT !.prevOps = 0, !.changed = FALSE]
  /\ UNCHANGED <<nodes, ports, wires, queues, signal, wg, reductionMu, started,
                 workers, phase, stats, trace, hang, scan, cur, ret, initNet>>

InitWith(names) ==
  /\ initNet \in names
  /\ workers \in 1..MaxWorkers
  /\ LET g == EnableTrace(NewNetwork, TraceCap)
     IN /\ nodes = g.nodes /\ ports = g.ports /\ wires = g.wires
        /\ queues = g.queues /\ signal = g.signal /\ wg = g.wg
        /\ stats = g.stats /\ trace = g.trace /\ hang = g.hang
  /\ reductionMu = -1
  /\ started = FALSE
  /\ phase = 1
  /\ pc = [t \in Threads |-> IF t = Main THEN "build" ELSE "off"]
  /\ scan = [t \in Threads |-> 0]
  /\ cur = [t \in Threads |-> 0]
  /\ ret = <<>>
  /\ m = NoLocals

(* the caller's next construction call: NewFan, NewEraser, NewVar,
   NewReplicator or LinkAt *)
BuildStep ==
  /\ pc[Main] = "build"
  /\ m.built < Len(NetOps(initNet))
  /\ Commit(ApplyOp(G, NetOps(initNet)[m.built + 1]))
  /\ m' = [m EXCEPT !.built = @ + 1]
  /\ pc' = [pc EXCEPT ![Main] = IF m.built + 1 = Len(NetOps(initNet))
                                 THEN "idle" ELSE "build"]
  /\ UNCHANGED <<reductionMu, started, workers, phase, scan, cur, ret, initNet>>

(* the scheduler and rewrite steps of any thread *)
ThreadStep(t) ==
  \/ PopRecv(t) \/ PopEmpty(t) \/ PopSignal(t)
  \/ BeginPair(t) \/ FinishPair(t)

SweepStep ==
  \/ \E n \in m.todo : SweepSkip(n) \/ DecayClaim(n) \/ MergeClaim(n)
  \/ DecayBody \/ MergeBody \/ SweepWait

RotateAll == (\E n \in m.todo : RotateStep(n)) \/ RotateDone

(* -------- the API driven by a caller: any calls on a built net -------- *)
ApiNets == {"TwoDepth", "RepArity", "FanRep", "Merge", "Contend"}

Init == InitWith(ApiNets)

Next ==
  \/ BuildStep
  \/ \E t \in Threads : ThreadStep(t)
  \/ CallReduceAll \/ ReduceAllWait
  \/ (\E n \in 0..MaxLimit : CallReduceWithLimit(n))
  \/ ReduceWithLimitEnd \/ ReduceWithLimitReturn
  \/ CallApplyCanonicalRules \/ SweepStep
  \/ (\E p \in {1, 2} : CallSetPhase(p)) \/ RotateAll
  \/ CallCanonicalize(RootOf(initNet))
  \/ (\E n \in m.todo : PruneStep(n)) \/ PruneDone
  \/ \E n1, n2 \in 1..MaxLinkNode, p1, p2 \in 0..MaxLinkPort :
       n1 < n2 /\ CallLinkAt(n1, p1, n2, p2, 0)

Spec == Init /\ [][Next]_vars

(* -------------- reduce_to_normal_form on a freshly built net ---------- *)
NFNets == {"KOmega", "Merge", "KApp", "RepArity", "FanRep", "Decay", "LateMerge"}

InitNF == InitWith(NFNets)

StepNF ==
  \/ BuildStep
  \/ CallReduceToNormalForm /\ m.calls = 0
  \/ RNFLoop \/ RNFSweep \/ RNFRepeat \/ RNFPhase2 \/ RNFReduce2
  \/ RNFFinalSweep \/ RNFFinalRepeat \/ RNFFinish \/ RNFReturn
  \/ ReduceAllWait \/ SweepStep \/ RotateAll

NextNF == (\E t \in 1..MaxWorkers : ThreadStep(t)) \/ StepNF

SpecNF == InitNF /\ [][NextNF]_vars

(* ------------- ReduceWithLimit on the net of a diverging term --------- *)
LimitNets == {"Omega"}

InitLimit == InitWith(LimitNets)

NextLimit ==
  \/ BuildStep
  \/ \E t \in Threads : ThreadStep(t)
  \/ (\E n \in 0..MaxLimit : CallReduceWithLimit(n))
  \/ ReduceWithLimitEnd \/ ReduceWithLimitReturn

SpecLimit == InitLimit /\ [][NextLimit]_vars

(* ------- ReduceAll with one worker on a root pair and an inner pair ---- *)
InitOrder == InitWith(OrderNets) /\ workers = 1

NextOrder ==
  \/ BuildStep
  \/ \E t \in 1..MaxWorkers : ThreadStep(t)
  \/ CallReduceAll \/ ReduceAllWait

SpecOrder == InitOrder /\ [][NextOrder]_vars

(* ------- SetPhase and ReduceToNormalForm calls in any order ----------- *)
NextPhase ==
  \/ NextNF
  \/ CallReduceToNormalForm
  \/ \E p \in {1, 2} : CallSetPhase(p)

SpecPhase == InitNF /\ [][NextPhase]_vars

(* ------ ReduceToNormalForm, then Canonicalize from the output Var ------ *)
NextErasure ==
  \/ NextNF
  \/ CallCanonicalize(RootOf(initNet))
  \/ (\E n \in m.todo : PruneStep(n)) \/ PruneDone

SpecErasure == InitNF /\ [][NextErasure]_vars

(* ---- ReduceAll with one worker on a net that fills a bucket ---------- *)
\* the construction calls ops[lo..hi] made one after another; a caller
\* blocked in a call makes no further call
RECURSIVE ApplyOps(_, _, _, _)
ApplyOps(g, ops, lo, hi) ==
  IF lo > hi THEN g
  ELSE IF lo = hi THEN ApplyOp(g, ops[lo])
  ELSE LET mid == (lo + hi) \div 2
           left == ApplyOps(g, ops, lo, mid)
       IN IF left.hang THEN left ELSE ApplyOps(left, ops, mid + 1, hi)

\* the nets of OrderNets before their construction, or the net Full when the
\* caller has made all its construction calls
InitFull ==
  /\ workers = 1
  /\ \/ InitWith(OrderNets)
     \/ /\ initNet = "Full"
        /\ LET g == ApplyOps(EnableTrace(NewNetwork, TraceCap), FullOps, 1, Len(FullOps))
           IN /\ nodes = g.nodes /\ ports = g.ports /\ wires = g.wires
              /\ queues = g.queues /\ signal = g.signal /\ wg = g.wg
              /\ stats = g.stats /\ trace = g.trace /\ hang = g.hang
        /\ reductionMu = -1
        /\ started = FALSE
        /\ phase = 1
        /\ pc = [t \in Threads |-> IF t = Main THEN "idle" ELSE "off"]
        /\ scan = [t \in Threads |-> 0]
        /\ cur = [t \in Threads |-> 0]
        /\ ret = <<>>
        /\ m = [NoLocals EXCEPT !.built = Len(FullOps)]

SpecFull == InitFull /\ [][NextOrder]_vars

(* ------------- one worker rewriting the pair of a rule net ------------ *)
InitRule == InitWith(RuleNets) /\ workers = 1

SpecRule == InitRule /\ [][NextOrder]_vars

(* ------------ Canonicalize called twice in a row on one net ----------- *)
CanonNets == ApiNets \cup NFNets \cup LimitNets \cup {"Chain", "Inside"}

InitCanon == InitWith(CanonNets)

NextCanon ==
  \/ BuildStep
  \/ CallCanonicalize(RootOf(initNet))
  \/ (\E n \in m.todo : PruneStep(n))
  \/ PruneDone

SpecCanon == InitCanon /\ [][NextCanon]_vars

(* -------- ApplyCanonicalRules called twice in a row on one net -------- *)
NextSweep == BuildStep \/ CallApplyCanonicalRules \/ SweepStep

SpecSweep == InitCanon /\ [][NextSweep]_vars

(* Fairness.  Go's scheduler lets every runnable goroutine run; a receive
   completes when a value is in the channel, a Lock when the mutex is free,
   wg.Wait when the counter is zero.  Runnable(t) is that condition for the
   step thread t is at, and Advance(t) is t leaving its position. *)
Labels ==
  {"off", "pop", "wait", "lock", "claimB", "hang", "build", "idle", "RA.wait",
   "RWL.end", "RWL.ret", "ACR.iter", "ACR.decay", "ACR.merge", "SP.iter",
   "CZ.iter", "RNF.loop", "RNF.acr", "RNF.check", "RNF.ra2", "RNF.final",
   "RNF.finalCheck", "RNF.ret"}

Runnable(t) ==
  IF t # Main
  THEN \/ pc[t] \in {"pop", "claimB"}
       \/ pc[t] = "wait" /\ signal > 0
       \/ pc[t] = "lock" /\ reductionMu = -1
  ELSE \/ pc[t] \in {"build", "SP.iter", "RNF.loop", "RNF.acr", "RNF.check",
                      "RNF.ra2", "RNF.final", "RNF.finalCheck", "RNF.ret"}
       \/ pc[t] = "idle" /\ m.calls = 0
       \/ pc[t] = "RA.wait" /\ wg = 0
       \/ pc[t] = "ACR.iter" /\ (m.todo # {} \/ wg = 0)
       \/ pc[t] = "ACR.decay" /\ \A w \in Wired(G, m.rep) : ~WireLocked(w)
       \/ pc[t] = "ACR.merge"
            /\ \A w \in Wired(G, m.rep) \cup Wired(G, m.other) : ~WireLocked(w)

Advance(t) == Runnable(t) /\ \E l \in Labels \ {pc[t]} : pc' = [pc EXCEPT ![t] = l]

SpecNFFair ==
  /\ InitNF /\ [][NextNF]_vars
  /\ \A t \in Threads : WF_pc(Advance(t))

\* ApplyCanonicalRules on a net whose workers were never started
SpecSweepFair ==
  /\ InitCanon /\ [][NextSweep]_vars
  /\ \A t \in Threads : WF_pc(Advance(t))

(* ============================ properties ============================== *)
\* no rewrite, splice, fuse, decay or merge is in progress
Quiescent ==
  /\ \A t \in Threads : pc[t] \notin {"claimB", "hang"}
  /\ pc[Main] \notin {"ACR.decay", "ACR.merge"}

\* reduce_to_normal_form has returned to its caller
Returned == pc[Main] = "RNF.ret"

\* C1: strict leftmost-outermost order.  Whenever a worker or ReduceWithLimit
\* begins a rewrite on a popped wire of depth d (the step that takes the
\* reduction mutex and claims the first agent), no bucket of an index below
\* clamp(d) holds a wire.
C1_StrictOrder ==
  [][\A t \in Threads :
        (pc[t] = "lock" /\ pc'[t] = "claimB")
          => \A j \in 0..(Clamp(wires[cur[t]].depth) - 1) : queues[j] = <<>>]_vars

\* C2: whenever Pop returns a wire taken from bucket i, every bucket j < i is
\* empty at the moment of the return.
C2_PopLowest ==
  [][\A t \in Threads :
        (pc[t] = "pop" /\ pc'[t] = "lock")
          => \A j \in 0..(scan[t] - 1) : queues'[j] = <<>>]_vars

(* The graph reachable from a root, up to the names of the agents: the
   agents in breadth-first order from the root (ports in index order), each
   with its type, level, deltas and, per port, the position and port index
   of the agent on the other end of its wire. *)
PortNeighbour(g, n, i) ==
  LET p == PortOf(g, n, i)
      w == WireAt(g, p)
  IN IF w = 0 THEN 0 ELSE Other(g, w, p)

RECURSIVE AddNew(_, _, _, _)
AddNew(g, order, n, i) ==
  IF i >= NumPorts(g, n) THEN order
  ELSE LET q == PortNeighbour(g, n, i)
           k == IF q = 0 THEN 0 ELSE NodeAt(g, q)
           seen == k = 0 \/ \E j \in DOMAIN order : order[j] = k
       IN AddNew(g, IF seen THEN order ELSE Append(order, k), n, i + 1)

RECURSIVE Walk(_, _, _)
Walk(g, order, i) ==
  IF i > Len(order) THEN order
  ELSE Walk(g, AddNew(g, order, order[i], 0), i + 1)

Pos(order, n) == CHOOSE j \in DOMAIN order : order[j] = n

Shape(g, root) ==
  LET order == Walk(g, <<root>>, 1)
  IN [k \in DOMAIN order |->
        LET n == order[k]
        IN <<Type(g, n), Level(g, n), Deltas(g, n),
             [i \in 1..NumPorts(g, n) |->
                LET q == PortNeighbour(g, n, i - 1)
                IN IF q = 0 THEN <<0, 0>>
                   ELSE <<Pos(order, NodeAt(g, q)), IndexAt(g, q)>>]>>]

\* the root interface port of the (\x. y) Omega net is wired to y
RootToY ==
  /\ initNet = "KOmega"
  /\ LET r == PortOf(G, RootOf("KOmega"), 0)
         y == PortOf(G, 2, 0)
     IN /\ WireAt(G, r) # 0
        /\ WireAt(G, r) = WireAt(G, y)
        /\ Other(G, WireAt(G, r), r) = y

\* C3: for the net of (\x. y) Omega, built with the outer redex at depth 0
\* and the redexes inside Omega at depths 1 and 2, ReduceToNormalForm
\* terminates and on return the root interface port is wired to y.
C3_OmegaErased ==
  (initNet = "KOmega") => (<>Returned /\ [](Returned => RootToY))

\* ReduceToNormalForm has returned on the Omega net, two workers running,
\* after the rewrites of the outer redex and of the erasure
C3_Witness ==
  /\ Returned /\ RootToY /\ workers = 2
  /\ stats.ops >= 2

\* the graph each net is reduced to, as Shape gives it
NormalForm(name) ==
  CASE name \in {"KOmega", "KApp", "RepArity"} ->
         << <<"Var", 0, <<>>, << <<2, 0>> >> >>,
            <<"Var", 0, <<>>, << <<1, 0>> >> >> >>
    [] name = "Decay" ->
         << <<"Var", 0, <<>>, << <<2, 0>> >> >>,
            <<"Eraser", 0, <<>>, << <<1, 0>> >> >> >>
    [] name = "Merge" ->
         << <<"Var", 0, <<>>, << <<2, 0>> >> >>,
            <<"Replicator", 3, <<2>>, << <<1, 0>>, <<3, 0>> >> >>,
            <<"Var", 0, <<>>, << <<2, 1>> >> >> >>
    [] name = "LateMerge" ->
         << <<"Var", 0, <<>>, << <<2, 0>> >> >>,
            <<"Replicator", 0, <<6>>, << <<1, 0>>, <<3, 2>> >> >>,
            <<"Fan", 0, <<>>, << <<4, 0>>, <<5, 1>>, <<2, 1>> >> >>,
            <<"Var", 0, <<>>, << <<3, 0>> >> >>,
            <<"Replicator", 1, <<5>>, << <<6, 0>>, <<3, 1>> >> >>,
            <<"Var", 0, <<>>, << <<5, 0>> >> >> >>
    [] name = "FanRep" ->
         << <<"Var", 0, <<>>, << <<2, 0>> >> >>,
            <<"Replicator", 1, <<0, 0>>, << <<1, 0>>, <<3, 0>>, <<4, 0>> >> >>,
            <<"Fan", 0, <<>>, << <<2, 1>>, <<5, 1>>, <<6, 0>> >> >>,
            <<"Fan", 0, <<>>, << <<2, 2>>, <<5, 2>>, <<7, 0>> >> >>,
            <<"Replicator", 1, <<0, 0>>, << <<8, 0>>, <<3, 1>>, <<4, 1>> >> >>,
            <<"Var", 0, <<>>, << <<3, 2>> >> >>,
            <<"Var", 0, <<>>, << <<4, 2>> >> >>,
            <<"Var", 0, <<>>, << <<5, 0>> >> >> >>

C8_NormalFormQuiet ==
  Returned =>
    /\ \A i \in DOMAIN queues : queues[i] = <<>>
    /\ wg = 0
    /\ \A w \in DOMAIN wires :
          ~(/\ wires[w].P0 # 0 /\ wires[w].P1 # 0
            /\ ports[wires[w].P0].index = 0 /\ ports[wires[w].P1].index = 0
            /\ nodes[ports[wires[w].P0].node].typ # "Var"
            /\ nodes[ports[wires[w].P1].node].typ # "Var"
            /\ nodes[ports[wires[w].P0].node].dead = 0
            /\ nodes[ports[wires[w].P1].node].dead = 0)

\* a return after the phase-2 rotation made a new active pair that the
\* second ReduceAll rewrote and the final sweep merged
C8_Witness ==
  /\ Returned /\ initNet = "LateMerge" /\ phase = 2
  /\ stats.statRepMerge >= 1
  /\ \E w \in DOMAIN wires : wires[w].P0 # 0

\* C5: the dead flag gives exclusive ownership.  Every rule application of
\* a worker, of ReduceWithLimit or of the canonical sweep that proceeds past
\* its claim step counts itself in the agents it consumes (uses); no agent
\* is consumed by more than one rule application.
C5_ExclusiveOwnership == \A n \in DOMAIN nodes : nodes[n].uses <= 1

\* a worker has claimed the first agent of its pair while the sweep holds
\* the claim on the second one
C5_Witness ==
  \E t \in 1..MaxWorkers :
    /\ pc[t] = "claimB"
    /\ pc[Main] \in {"ACR.decay", "ACR.merge"}
    /\ ports[wires[cur[t]].P1].node \in {m.rep, m.other}
    /\ nodes[ports[wires[cur[t]].P1].node].dead = 1

\* C6: in every quiescent state reached by LinkAt, ReduceAll,
\* ReduceWithLimit, ApplyCanonicalRules, Canonicalize and SetPhase calls,
\* every wire referenced by some port has both endpoints set and each
\* endpoint port refers back to that wire.
C6_WiresConsistent ==
  Quiescent =>
    \A p \in DOMAIN ports :
      ports[p].wire # 0 =>
        LET w == wires[ports[p].wire]
        IN /\ w.P0 # 0 /\ w.P1 # 0
           /\ ports[w.P0].wire = ports[p].wire
           /\ ports[w.P1].wire = ports[p].wire

\* C7: in every quiescent state an agent whose dead flag is set has no port
\* that holds a wire, and no wire has a port of a dead agent as an endpoint.
C7_DeadAgentsCleared ==
  Quiescent =>
    \A n \in DOMAIN nodes :
      nodes[n].dead = 1 =>
        /\ \A i \in DOMAIN nodes[n].ports : ports[nodes[n].ports[i]].wire = 0
        /\ \A w \in DOMAIN wires :
             /\ wires[w].P0 # 0 => ports[wires[w].P0].node # n
             /\ wires[w].P1 # 0 => ports[wires[w].P1].node # n

\* popped wires whose rewrite step has not finished
InFlight == Cardinality({ t \in Threads : pc[t] \in {"lock", "claimB"} })

\* wires held in buckets 0..i
RECURSIVE SumQ(_)
SumQ(i) == IF i < 0 THEN 0 ELSE Len(queues[i]) + SumQ(i - 1)

C10_LimitRespected ==
  [][(pc[Main] # "RWL.ret" /\ pc'[Main] = "RWL.ret")
       => /\ stats'.ops - m'.rwlStart <= m'.rwlMax
          /\ m'.rwlRet = stats'.ops - m'.rwlStart]_vars

\* C11: ReduceWithLimit always returns.  When the scheduler runs out of
\* active pairs before the limit is reached the call stops: the caller is
\* never blocked inside Pop on the signal channel while no wire is pending,
\* none is being rewritten and no signal is left (nothing can wake it then,
\* since only a rewrite or a call of the blocked caller itself can push).
C11_LimitReturns ==
  ~(/\ pc[Main] = "wait"
    /\ signal = 0
    /\ wg = 0
    /\ \A t \in Threads : pc[t] \in {"wait", "off"})

\* C12: on a net that has a rewritable active pair throughout the call (the
\* net of Omega; a pair is still pending when the call returns),
\* ReduceWithLimit(N) performs exactly N rewrites and returns N.
C12_ExactlyN ==
  [][(pc[Main] # "RWL.ret" /\ pc'[Main] = "RWL.ret" /\ wg' > 0)
       => /\ m'.rwlRet = m'.rwlMax
          /\ stats'.ops - m'.rwlStart = m'.rwlMax]_vars

\* C13: dequeue is mutually exclusive.  At no time are two threads (workers,
\* or a worker and ReduceWithLimit) both in the middle of Pop's scan of the
\* buckets: past the receive attempt on bucket 0 and not yet at its end.
C13_PopExclusive ==
  \A t1, t2 \in Threads :
    (/\ pc[t1] = "pop" /\ scan[t1] >= 1
     /\ pc[t2] = "pop" /\ scan[t2] >= 1) => t1 = t2

\* the rule a pair of the given kinds is rewritten by in phase 1
RootRule(name) ==
  CASE name \in {"FanFan.inner", "FanFan.root"} -> "RuleFanFan"
    [] name \in {"FanRep.inner", "FanRep.root"} -> "RuleFanRep"
    [] name \in {"EraFan.inner", "EraFan.root", "EraRep.inner", "EraRep.root"}
         -> "RuleErasure"
    [] name \in {"RepRep.inner", "RepRep.root"} -> "RuleRepRep"
    [] name \in {"RepRepComm.inner", "RepRepComm.root"} -> "RuleRepRepComm"

\* C14: with one worker and ReduceAll, when a root pair (depth 0) and an
\* inner pair (depth 1) are both pending before the reduction starts, in
\* either link order and for each kind of root pair, the root pair is the
\* first pair rewritten and the first trace event.
C14_RootPairFirst ==
  /\ stats.ops = 1 => \A n \in RootPair(initNet) : nodes[n].dead = 1
  /\ trace.idx >= 1 =>
       /\ {trace.buf[1].AID, trace.buf[1].BID} = RootPair(initNet)
       /\ trace.buf[1].Rule = RootRule(initNet)
       /\ trace.buf[1].Step = 0

\* both pairs are rewritten, the inner one was linked and pushed first, and
\* the first event is the commutation of the two root replicators
C14_Witness ==
  /\ initNet = "RepRepComm.inner"
  /\ pc[Main] = "idle" /\ m.calls >= 1
  /\ trace.idx = 2
  /\ trace.buf[1].Rule = "RuleRepRepComm" /\ trace.buf[2].Rule = "RuleFanFan"

\* the statistics of one run of ReduceToNormalForm on each net with one
\* worker: <<ops, FanAnn, RepAnn, RepComm, FanRepComm, Erasure, RepDecay,
\* RepMerge, AuxFanRep>>
RunStats(name) ==
  CASE name = "KOmega" -> <<6, 4, 1, 0, 1, 0, 0, 0, 0>>
    [] name = "KApp" -> <<1, 1, 0, 0, 0, 0, 0, 0, 0>>
    [] name = "RepArity" -> <<1, 0, 1, 0, 0, 0, 0, 0, 0>>
    [] name = "FanRep" -> <<1, 0, 0, 0, 1, 0, 0, 0, 0>>
    [] name = "Decay" -> <<2, 0, 0, 0, 0, 2, 0, 0, 0>>
    [] name = "LateMerge" -> <<1, 0, 0, 0, 0, 0, 0, 1, 1>>
    [] name = "Merge" -> <<0, 0, 0, 0, 0, 0, 0, 1, 0>>

Abandons(t) ==
  /\ cur[t] # 0
  /\ ~Stale(G, cur[t])
  /\ \/ /\ pc[t] = "lock"
        /\ reductionMu = -1
        /\ ~SetDeadOk(G, NodeAt(G, wires[cur[t]].P0))
     \/ /\ pc[t] = "claimB"
        /\ ~SetDeadOk(G, NodeAt(G, wires[cur[t]].P1))

Queued(w) ==
  \E d \in DOMAIN queues' : \E i \in 1..Len(queues'[d]) : queues'[d][i] = w

\* C16: when a thread abandons a popped wire because a claim failed, the
\* agent it had claimed first is unclaimed again and the wire is back in a
\* bucket of the scheduler after the step.
C16_AbandonedRescheduled ==
  [][\A t \in Threads :
       (Abandons(t) /\ pc'[t] # pc[t]) =>
         /\ pc[t] = "claimB" => nodes'[NodeAt(G, wires[cur[t]].P0)].dead = 0
         /\ Queued(cur[t])]_vars

\* the agents the caller created while building the net
Built(name) ==
  1..Cardinality({ i \in DOMAIN NetOps(name) : NetOps(name)[i][1] # "L" })

\* C17: when Canonicalize(root, port) returns, every agent of the registry
\* that the caller built and that cannot be reached from root along wires is
\* marked dead and holds no wire.
C17_UnreachablePruned ==
  [][(pc[Main] = "CZ.iter" /\ pc'[Main] = "idle") =>
       \A n \in (Registry(G) \cap Built(initNet)) \ Visit(G, {RootOf(initNet)}) :
         nodes[n].dead = 1 /\ Wired(G, n) = {}]_vars

\* C18: Canonicalize is idempotent: a second call Canonicalize(root, port)
\* made right after the first creates no agent, changes no wire and no port,
\* and schedules no pair.
C18_CanonicalizeIdempotent ==
  [][(pc[Main] = "CZ.iter" /\ m.calls >= 2) =>
       UNCHANGED <<nodes, ports, wires, queues, wg>>]_vars

\* C19: ApplyCanonicalRules reaches a fixed point in one call: a second call
\* made right after the first applies no decay and no merge and changes no
\* wire and no port.
C19_SweepFixedPoint ==
  [][(m.calls >= 2 /\ pc[Main] \in {"ACR.iter", "ACR.decay", "ACR.merge"}) =>
       UNCHANGED <<stats, wires, ports>>]_vars

\* auxiliary port i of the live replicator r is wired to the principal port
\* of the live replicator s, and 0 <= s.level - r.level <= r.deltas[i-1]
Constraint(g, r, i, s) ==
  /\ Type(g, r) = "Replicator" /\ Type(g, s) = "Replicator"
  /\ i \in 1..(NumPorts(g, r) - 1)
  /\ WireAt(g, PortOf(g, r, i)) # 0
  /\ Other(g, WireAt(g, PortOf(g, r, i)), PortOf(g, r, i)) = PortOf(g, s, 0)
  /\ 0 <= Level(g, s) - Level(g, r)
  /\ Level(g, s) - Level(g, r) <= Deltas(g, r)[i]

\* C20: ApplyCanonicalRules merges S into R whenever auxiliary port i of R is
\* wired to the principal port of S and 0 <= S.level - R.level <= R.deltas[i-1]:
\* when the first call on a built net returns, no two live replicators the
\* caller built are left in that position; and a merge is only applied to a
\* pair that satisfies the constraint.
C20_MergeConstraint ==
  [][/\ (pc[Main] = "ACR.iter" /\ pc'[Main] = "idle" /\ m.calls = 1) =>
          \A r, s \in Registry(G) \cap Built(initNet) :
            \A i \in 1..2 :
              ~(/\ r # s /\ ~IsDead(G, r) /\ ~IsDead(G, s)
                /\ WireAt(G, PortOf(G, r, 0)) # 0
                /\ Constraint(G, r, i, s))
     /\ (pc[Main] = "ACR.merge" /\ stats'.statRepMerge > stats.statRepMerge) =>
          Constraint(G, m.rep, m.aux, m.other)]_vars

\* the step of ApplyCanonicalRules that applies a merge
Merges == pc[Main] = "ACR.merge" /\ stats'.statRepMerge > stats.statRepMerge

\* the deltas d_1..d_(i-1), d_i+s_1..d_i+s_m, d_(i+1)..d_n
ExpectedDeltas(d, sd, i) ==
  [k \in 1..(Len(d) - 1 + Len(sd)) |->
     IF k < i THEN d[k]
     ELSE IF k < i + Len(sd) THEN d[i] + sd[k - i + 1]
     ELSE d[k - Len(sd) + 1]]

\* the ports whose neighbours the new replicator takes, in order: the
\* principal of R, then R's auxiliary ports with S's in the place of port i
ExpectedPorts(g, r, s, i) ==
  <<PortOf(g, r, 0)>>
    \o [k \in 1..(i - 1) |-> PortOf(g, r, k)]
    \o [k \in 1..(NumPorts(g, s) - 1) |-> PortOf(g, s, k)]
    \o [k \in 1..(NumPorts(g, r) - 1 - i) |-> PortOf(g, r, i + k)]

\* C21: a merge of R with S through R's auxiliary port i makes exactly one new
\* replicator with R's level and the deltas d_1..d_(i-1), d_i+s_1..d_i+s_m,
\* d_(i+1)..d_n, whose ports take the former neighbours of R's principal, of
\* R's other auxiliary ports and of S's auxiliary ports in that order; R and S
\* end dead with no wires; the merge counter grows by exactly 1.
C21_MergeResult ==
  [][Merges =>
       LET r == m.rep
           s == m.other
           new == Len(nodes) + 1
           old == ExpectedPorts(G, r, s, m.aux)
       IN /\ Len(nodes') = Len(nodes) + 1
          /\ nodes'[new].typ = "Replicator"
          /\ nodes'[new].level = nodes[r].level
          /\ nodes'[new].deltas = ExpectedDeltas(nodes[r].deltas, nodes[s].deltas, m.aux)
          /\ \A k \in 1..Len(old) :
               WireAt(G, old[k]) # 0 =>
                 /\ WireAt(G', PortOf(G', new, k - 1)) = WireAt(G, old[k])
                 /\ Other(G', WireAt(G, old[k]), PortOf(G', new, k - 1))
                      = Other(G, WireAt(G, old[k]), old[k])
          /\ stats'.statRepMerge = stats.statRepMerge + 1
          /\ nodes'[r].dead = 1 /\ nodes'[s].dead = 1
          /\ Wired(G', r) = {} /\ Wired(G', s) = {}]_vars

\* the step of ApplyCanonicalRules that applies a decay to the claimed unit
\* replicator m.rep, both of whose ports hold a wire
Decays ==
  /\ pc[Main] = "ACR.decay" /\ pc'[Main] # "ACR.decay"
  /\ PortNeighbour(G, m.rep, 0) # 0 /\ PortNeighbour(G, m.rep, 1) # 0

NumQueued(q, w) ==
  LET all == { <<d, i>> \in (DOMAIN q) \X (1..QueueCap) : i <= Len(q[d]) }
  IN Cardinality({ e \in all : q[e[1]][e[2]] = w })

\* C22: when ApplyCanonicalRules decays a unit replicator R (one auxiliary
\* port, delta 0) whose principal is wired to port x and whose auxiliary port
\* is wired to port y, then x and y are the two ends of one wire, the wire
\* that was on R's principal, with the depth it had; R is dead with both ports
\* cleared; the decay counter grows by exactly 1; and that wire is scheduled
\* if x and y are both principal ports of non-Var agents.
C22_DecayResult ==
  [][Decays =>
       LET r == m.rep
           w == WireAt(G, PortOf(G, r, 0))
           x == PortNeighbour(G, r, 0)
           y == PortNeighbour(G, r, 1)
       IN /\ {wires'[w].P0, wires'[w].P1} = {x, y}
          /\ ports'[x].wire = w /\ ports'[y].wire = w
          /\ wires'[w].depth = wires[w].depth
          /\ nodes'[r].dead = 1
          /\ ports'[PortOf(G, r, 0)].wire = 0 /\ ports'[PortOf(G, r, 1)].wire = 0
          /\ stats'.statRepDecay = stats.statRepDecay + 1
          /\ (/\ IndexAt(G, x) = 0 /\ IndexAt(G, y) = 0
              /\ Type(G, NodeAt(G, x)) # "Var" /\ Type(G, NodeAt(G, y)) # "Var") =>
               /\ NumQueued(queues', w) = NumQueued(queues, w) + 1
               /\ wg' = wg + 1]_vars

\* a unit replicator between an Eraser and the principal port of a Fan has
\* decayed: the Eraser and the Fan are joined by one wire and that wire is
\* pending
C22_Witness ==
  /\ initNet = "Decay"
  /\ stats.statRepDecay = 1
  /\ nodes[2].dead = 1
  /\ PortNeighbour(G, 1, 0) = PortOf(G, 3, 0)
  /\ NumQueued(queues, WireAt(G, PortOf(G, 1, 0))) >= 1

(* The rewrite rules.  A rule is applied by the step of a thread t from
   "claimB" that adds 1 to the counter of the rule; the pair is the two agents
   on the ends of the popped wire cur[t].  Nb is the port on the other end of
   the wire of port q (0 when q holds no wire), Joined says that ports p and q
   are the two ends of one wire. *)
Applies(t, counter) == pc[t] = "claimB" /\ stats'[counter] = stats[counter] + 1

PairA(t) == NodeAt(G, wires[cur[t]].P0)
PairB(t) == NodeAt(G, wires[cur[t]].P1)

Nb(g, q) == IF WireAt(g, q) = 0 THEN 0 ELSE Other(g, WireAt(g, q), q)

Joined(g, p, q) ==
  /\ p # 0 /\ q # 0 /\ WireAt(g, p) # 0 /\ WireAt(g, p) = WireAt(g, q)
  /\ {g.wires[WireAt(g, p)].P0, g.wires[WireAt(g, p)].P1} = {p, q}

AuxPorts(g, n) == { PortOf(g, n, i) : i \in 1..(NumPorts(g, n) - 1) }

Gone(g, n) == g.nodes[n].dead = 1 /\ Wired(g, n) = {}

\* every wired auxiliary port q of a or b: the port that replaces q is joined
\* to the port that replaces the former neighbour of q
Rewired(g, g2, a, b, Subst(_)) ==
  \A q \in AuxPorts(g, a) \cup AuxPorts(g, b) :
    Nb(g, q) # 0 => Joined(g2, Subst(q), Subst(Nb(g, q)))

\* C23: commutation of replicators A (lower level, deltas d_1..d_n) and B (m
\* auxiliary ports) makes exactly n copies B_i of B with level(B) + d_i and
\* B's deltas and m copies A_j of A with A's level and deltas; the principal
\* of B_i takes the neighbour of A's auxiliary port i, the principal of A_j
\* the neighbour of B's auxiliary port j, auxiliary port i of A_j is wired to
\* auxiliary port j of B_i, and A and B end dead with no wires.
C23_RepCommutation ==
  [][\A t \in Threads : Applies(t, "statRepComm") =>
       LET swap == Level(G, PairA(t)) > Level(G, PairB(t))
           a == IF swap THEN PairB(t) ELSE PairA(t)
           b == IF swap THEN PairA(t) ELSE PairB(t)
           n == NumPorts(G, a) - 1
           mm == NumPorts(G, b) - 1
           base == Len(nodes)
           Bc(i) == base + i
           Ac(j) == base + n + j
           Subst(q) ==
             IF q \in AuxPorts(G, a) THEN PortOf(G', Bc(IndexAt(G, q)), 0)
             ELSE IF q \in AuxPorts(G, b) THEN PortOf(G', Ac(IndexAt(G, q)), 0)
             ELSE q
       IN /\ Len(nodes') = base + n + mm
          /\ \A i \in 1..n :
               /\ nodes'[Bc(i)].typ = "Replicator"
               /\ nodes'[Bc(i)].level = Level(G, b) + Deltas(G, a)[i]
               /\ nodes'[Bc(i)].deltas = Deltas(G, b)
          /\ \A j \in 1..mm :
               /\ nodes'[Ac(j)].typ = "Replicator"
               /\ nodes'[Ac(j)].level = Level(G, a)
               /\ nodes'[Ac(j)].deltas = Deltas(G, a)
          /\ Rewired(G, G', a, b, Subst)
          /\ \A i \in 1..n, j \in 1..mm :
               Joined(G', PortOf(G', Ac(j), i), PortOf(G', Bc(i), j))
          /\ Gone(G', a) /\ Gone(G', b)]_vars

\* the replicators (10, [5, 10]) and (20, [3]) of the net RRcomm.ext have
\* commuted: two copies at levels 25 and 30 with deltas [3], one copy at level
\* 10 with deltas [5, 10]
C23_Witness ==
  /\ initNet = "RRcomm.ext"
  /\ stats.statRepComm = 1
  /\ Len(nodes) = 8
  /\ nodes[6].level = 25 /\ nodes[7].level = 30 /\ nodes[8].deltas = <<5, 10>>
  /\ nodes[1].dead = 1 /\ nodes[2].dead = 1

\* C24: commutation of a fan (auxiliary neighbours f1, f2) with a replicator
\* (auxiliary neighbours r1..rn) makes exactly two copies R1, R2 of the
\* replicator with its level and deltas and n fans F1..Fn; the principal of
\* R1 is wired to f1, of R2 to f2, of Fi to ri (to the principal of the copy
\* that takes its place when the neighbour is a port of the pair); auxiliary
\* port 1 of Fi is wired to auxiliary port i of R1 and auxiliary port 2 of Fi
\* to auxiliary port i of R2; the fan and the replicator end dead with no
\* wires.
C24_FanRepCommutation ==
  [][\A t \in Threads : Applies(t, "statFanRepComm") =>
       LET isFan == Type(G, PairA(t)) = "Fan"
           fan == IF isFan THEN PairA(t) ELSE PairB(t)
           rep == IF isFan THEN PairB(t) ELSE PairA(t)
           n == NumPorts(G, rep) - 1
           base == Len(nodes)
           Rc(k) == base + k
           Fc(i) == base + 2 + i
           Subst(q) ==
             IF q \in AuxPorts(G, fan) THEN PortOf(G', Rc(IndexAt(G, q)), 0)
             ELSE IF q \in AuxPorts(G, rep) THEN PortOf(G', Fc(IndexAt(G, q)), 0)
             ELSE q
       IN /\ Len(nodes') = base + 2 + n
          /\ \A k \in 1..2 :
               /\ nodes'[Rc(k)].typ = "Replicator"
               /\ nodes'[Rc(k)].level = Level(G, rep)
               /\ nodes'[Rc(k)].deltas = Deltas(G, rep)
          /\ \A i \in 1..n : nodes'[Fc(i)].typ = "Fan"
          /\ Rewired(G, G', fan, rep, Subst)
          /\ \A i \in 1..n, k \in 1..2 :
               Joined(G', PortOf(G', Fc(i), k), PortOf(G', Rc(k), i))
          /\ Gone(G', fan) /\ Gone(G', rep)]_vars

\* the fan and the replicator (2, [1, 0]) of the net FR.same, where auxiliary
\* port 1 of the fan is wired to auxiliary port 1 of the replicator, have
\* commuted: the principal of R1 is wired to the principal of F1
C24_Witness ==
  /\ initNet = "FR.same"
  /\ stats.statFanRepComm = 1
  /\ Len(nodes) = 8
  /\ nodes[1].dead = 1 /\ nodes[2].dead = 1
  /\ Joined(G, PortOf(G, 5, 0), PortOf(G, 7, 0))

\* Annihilation identifies auxiliary port i of a with auxiliary port i of b.
\* Mate is the port identified with q; Through is the port reached from q
\* across its wire, passing on through the pair while it arrives at one of
\* its auxiliary ports.
Mate(g, a, b, q) ==
  PortOf(g, IF NodeAt(g, q) = a THEN b ELSE a, IndexAt(g, q))

RECURSIVE Through(_, _, _, _, _)
Through(g, a, b, q, fuel) ==
  LET z == Nb(g, q)
  IN IF z = 0 \/ fuel = 0 \/ z \notin AuxPorts(g, a) \cup AuxPorts(g, b) THEN z
     ELSE Through(g, a, b, Mate(g, a, b, z), fuel - 1)

\* every port outside the pair that was wired to an auxiliary port of the
\* pair is joined to the port found through the identified port
Fused(g, g2, a, b) ==
  LET inner == AuxPorts(g, a) \cup AuxPorts(g, b)
  IN \A q \in inner :
       LET x == Nb(g, q)
           y == Through(g, a, b, Mate(g, a, b, q), Cardinality(inner))
       IN (x # 0 /\ x \notin inner /\ y # 0 /\ y \notin inner) => Joined(g2, x, y)

\* C25: annihilation of a Fan-Fan pair A, B wires the former neighbour of A's
\* auxiliary port i to the former neighbour of B's auxiliary port i for i = 1
\* and 2 (through the pair, when a neighbour is itself an auxiliary port of A
\* or B), creates no agent, and leaves A and B dead with no wires.
C25_FanAnnihilation ==
  [][\A t \in Threads : Applies(t, "statFanAnn") =>
       /\ Len(nodes') = Len(nodes)
       /\ Fused(G, G', PairA(t), PairB(t))
       /\ Gone(G', PairA(t)) /\ Gone(G', PairB(t))]_vars

\* the fans of the net FF.cross, where auxiliary port 1 of A is wired to
\* auxiliary port 2 of B, have annihilated: the Var that was on A's auxiliary
\* port 2 is wired to the Var that was on B's auxiliary port 1
C25_Witness ==
  /\ initNet = "FF.cross"
  /\ stats.statFanAnn = 1
  /\ nodes[1].dead = 1 /\ nodes[2].dead = 1
  /\ Joined(G, PortOf(G, 3, 0), PortOf(G, 4, 0))

\* C26: a Replicator-Replicator pair of equal level is annihilated only when
\* both replicators have the same number of ports; the annihilation wires the
\* neighbour of A's auxiliary port i to the neighbour of B's auxiliary port i
\* for every i, and afterwards no auxiliary port of A or B holds a wire.
C26_RepAnnihilation ==
  [][\A t \in Threads : Applies(t, "statRepAnn") =>
       /\ NumPorts(G, PairA(t)) = NumPorts(G, PairB(t))
       /\ Fused(G, G', PairA(t), PairB(t))
       /\ \A q \in AuxPorts(G, PairA(t)) \cup AuxPorts(G, PairB(t)) :
            WireAt(G', q) = 0]_vars

C28_PhaseCounters ==
  [][\A t \in Threads :
       (/\ pc[t] = "claimB" /\ stats'.ops = stats.ops + 1
        /\ {Type(G, PairA(t)), Type(G, PairB(t))} = {"Fan", "Replicator"}) =>
         LET now == IF phase = 2 THEN "statAuxFanRep" ELSE "statFanRepComm"
             other == IF phase = 2 THEN "statFanRepComm" ELSE "statAuxFanRep"
             rule == IF phase = 2 THEN "RuleAuxFanRep" ELSE "RuleFanRep"
         IN /\ stats'[now] = stats[now] + 1
            /\ stats'[other] = stats[other]
            /\ Len(trace'.buf) > Len(trace.buf) =>
                 trace'.buf[Len(trace'.buf)].Rule = rule]_vars

\* the Fan-Replicator pair of TestPhase2AuxFanReplication, linked in phase 1,
\* has been rewritten after SetPhase(2)
C28_Witness ==
  /\ initNet = "FanRep"
  /\ phase = 2
  /\ stats.statAuxFanRep = 1 /\ stats.statFanRepComm = 0
  /\ \E i \in DOMAIN trace.buf : trace.buf[i].Rule = "RuleAuxFanRep"

\* the ports of agent n in the order they were allocated
AsBuilt(g, n) ==
  LET first == CHOOSE p \in AuxPorts(g, n) \cup {PortOf(g, n, 0)} :
                 \A q \in AuxPorts(g, n) \cup {PortOf(g, n, 0)} : p <= q
  IN [i \in 1..NumPorts(g, n) |-> first + i - 1]

\* C29: the fan rotation is one-off: over any sequence of SetPhase and
\* ReduceToNormalForm calls, whenever the phase is 2 (and no rotation pass is
\* under way) every fan the caller built has its ports shifted by exactly one
\* step relative to how it was built: [0, 1, 2] -> [1, 2, 0].
C29_RotatedOnce ==
  (phase = 2 /\ pc[Main] # "SP.iter") =>
    \A n \in Registry(G) \cap Built(initNet) :
      Type(G, n) = "Fan" =>
        nodes[n].ports = <<AsBuilt(G, n)[2], AsBuilt(G, n)[3], AsBuilt(G, n)[1]>>

\* the physical port at which readTerm looks for logical port l of a fan
readerPort(ph, l) ==
  IF ph = 2
  THEN CASE l = 0 -> 2
         [] l = 1 -> 0
         [] l = 2 -> 1
  ELSE l

\* the fans whose port array this step permutes
RotatedFans ==
  { n \in DOMAIN nodes : /\ nodes[n].typ = "Fan"
                         /\ nodes'[n].ports # nodes[n].ports }

\* C30: rotation and the reader's phase-2 mapping cancel out: for every fan
\* that a step of SetPhase(2) rotates and every logical port l in {0,1,2},
\* the wire at the physical port readTerm uses for l in phase 2 is the wire
\* that was on port l before the rotation, and afterwards the port at
\* position i carries index i
C30_RotationCancels ==
  [][\A n \in RotatedFans :
       /\ phase' = 2
       /\ \A l \in 0..2 :
            /\ WireAt(G', PortOf(G', n, readerPort(phase', l))) = WireAt(G, PortOf(G, n, l))
            /\ PortOf(G', n, readerPort(phase', l)) = PortOf(G, n, l)
       /\ \A i \in 0..2 : IndexAt(G', PortOf(G', n, i)) = i]_vars

\* a fan with three different wires has been rotated by SetPhase(2)
C30_Witness ==
  /\ phase = 2
  /\ pc[Main] # "SP.iter"
  /\ \E n \in Registry(G) \cap Built(initNet) :
       /\ Type(G, n) = "Fan"
       /\ nodes[n].ports = <<AsBuilt(G, n)[2], AsBuilt(G, n)[3], AsBuilt(G, n)[1]>>
       /\ \A i \in 0..2 : WireAt(G, PortOf(G, n, i)) # 0
       /\ Cardinality({ WireAt(G, PortOf(G, n, i)) : i \in 0..2 }) = 3
       /\ \A i \in 0..2 : IndexAt(G, PortOf(G, n, i)) = i

\* the wires a step places into the scheduler
Pushed ==
  LET changed == { d \in DOMAIN queues : queues'[d] # queues[d] }
      slots(q) == UNION { {d} \X (1..Len(q[d])) : d \in changed }
      count(q, w) == Cardinality({ e \in slots(q) : q[e[1]][e[2]] = w })
  IN { w \in { queues'[e[1]][e[2]] : e \in slots(queues') } :
         count(queues', w) > count(queues, w) }

\* C31: every wire placed into the scheduler is, when the step that pushed it
\* ends, a wire whose two endpoints are both principal ports (index 0) of
\* non-Var agents, whichever push site pushed it
C31_OnlyActivePairsPushed ==
  [][\A w \in Pushed : ActiveEnds(G', wires'[w].P0, wires'[w].P1)]_vars

\* a rewrite has put a wire into the scheduler that joins an agent it created
\* to another agent, principal to principal
C31_Witness ==
  \E d \in DOMAIN queues : \E i \in 1..Len(queues[d]) :
    LET w == queues[d][i] IN
      /\ ActiveEnds(G, wires[w].P0, wires[w].P1)
      /\ \/ NodeAt(G, wires[w].P0) \notin Built(initNet)
         \/ NodeAt(G, wires[w].P1) \notin Built(initNet)
      /\ stats.ops >= 1

\* the Var agents of a net that its construction links to something
LinkedVars(name) ==
  { n \in Built(name) :
      \E k \in DOMAIN NetOps(name) :
        LET op == NetOps(name)[k]
        IN op[1] = "L" /\ (op[2] = n \/ op[4] = n) }

\* C32: in every quiescent state after the net is built, each Var that was
\* linked holds exactly one wire, is an endpoint of that wire, and has not
\* been claimed or marked dead, whatever calls were made in between
C32_VarKeepsWire ==
  (pc[Main] = "idle" /\ m.built = Len(NetOps(initNet)) /\ Quiescent) =>
    \A n \in LinkedVars(initNet) :
      Type(G, n) = "Var" =>
        LET p == PortOf(G, n, 0) IN
          /\ WireAt(G, p) # 0
          /\ p \in {wires[WireAt(G, p)].P0, wires[WireAt(G, p)].P1}
          /\ nodes[n].dead = 0

\* the caller's step is a LinkAt on the built net
LinkAtStep ==
  /\ pc[Main] = "idle" /\ pc'[Main] = "idle"
  /\ m'.calls = m.calls + 1
  /\ Len(wires') = Len(wires) + 1

\* C33: link / link_at on a port that already holds a wire never replaces
\* that wire: after the call every port that held a wire still holds the
\* same one
C33_LinkNeverReplaces ==
  [][LinkAtStep =>
       \A p \in DOMAIN ports :
         ports[p].wire # 0 => ports'[p].wire = ports[p].wire]_vars

\* C34: every rewrite dispatched by reducePair acts on an active pair: when
\* the second agent is claimed, the two endpoints of the popped wire are
\* principal ports (index 0) of non-Var agents, also for wires that were
\* scheduled before SetPhase(2) rotated the fans
C34_RewritesActivePairs ==
  [][\A t \in Threads :
       Applies(t, "ops") => ActiveEnds(G, wires[cur[t]].P0, wires[cur[t]].P1)]_vars

\* reducePair on thread t returns before its first claim succeeds
ReturnsAtFirst(t) == pc[t] = "lock" /\ pc'[t] \notin {"lock", "claimB"}

\* reducePair on thread t returns because its second claim fails
ReturnsAtSecond(t) ==
  /\ pc[t] = "claimB" /\ pc'[t] # "claimB"
  /\ ~SetDeadOk(G, NodeAt(G, wires[cur[t]].P1))

\* C35: abandoning a popped wire is a no-op on the graph: when reducePair
\* returns early (an endpoint is missing or stale, or a claim fails) the
\* ports, the wires, the statistics and the trace are unchanged, and every
\* dead flag has the value it had before the call (the agent claimed first is
\* unclaimed again)
C35_AbandonIsNoOp ==
  [][\A t \in Threads :
       (ReturnsAtFirst(t) \/ ReturnsAtSecond(t)) =>
         /\ ports' = ports /\ wires' = wires
         /\ stats' = stats /\ trace' = trace
         /\ \A n \in DOMAIN nodes :
              nodes'[n].dead =
                IF ReturnsAtSecond(t) /\ n = NodeAt(G, wires[cur[t]].P0)
                THEN 0 ELSE nodes[n].dead]_vars

\* a popped wire has been abandoned on a failed claim: it still joins two
\* principal ports, one of its agents is dead, and no bucket or thread has it
C35_Witness ==
  \E w \in DOMAIN wires :
    /\ ~Stale(G, w)
    /\ ActiveEnds(G, wires[w].P0, wires[w].P1)
    /\ \/ nodes[NodeAt(G, wires[w].P0)].dead = 1
       \/ nodes[NodeAt(G, wires[w].P1)].dead = 1
    /\ NumQueued(queues, w) = 0
    /\ \A t \in Threads : cur[t] # w
    /\ stats.ops >= 1

\* C36: ApplyCanonicalRules always returns, also on a network whose workers
\* have never been started while a wire is pending in the scheduler
C36_SweepReturns ==
  (pc[Main] \in {"ACR.iter", "ACR.decay", "ACR.merge"}) ~> (pc[Main] = "idle")

\* C37: a Push made from inside a rewrite always completes: no thread is
\* ever stuck while a bucket of the scheduler holds its full capacity of
\* QueueCap wires
C37_PushCompletes ==
  \A t \in Threads :
    pc[t] = "hang" => \A d \in DOMAIN queues : Len(queues[d]) < QueueCap

\* C38: every wire created during the rewrite of an active pair of depth d
\* joins two ports created by that rewrite and carries depth d + 1, and if
\* it is in the scheduler after the rewrite, it is in bucket Clamp(d + 1)
C38_InnerWiresDeeper ==
  [][\A t \in Threads :
       Applies(t, "ops") =>
         \A w \in (Len(wires) + 1)..Len(wires') :
           /\ wires'[w].depth = wires[cur[t]].depth + 1
           /\ wires'[w].P0 > Len(ports) /\ wires'[w].P1 > Len(ports)
           /\ \A b \in DOMAIN queues' :
                (\E i \in 1..Len(queues'[b]) : queues'[b][i] = w) =>
                  b = Clamp(wires[cur[t]].depth + 1)]_vars

\* the rewrite of a pair of depth 1 or more has joined two of the agents it
\* created by a wire
C38_Witness ==
  \E w \in DOMAIN wires :
    /\ wires[w].depth >= 2
    /\ wires[w].P0 # 0 /\ wires[w].P1 # 0
    /\ NodeAt(G, wires[w].P0) \notin Built(initNet)
    /\ NodeAt(G, wires[w].P1) \notin Built(initNet)
    /\ IndexAt(G, wires[w].P0) # 0 /\ IndexAt(G, wires[w].P1) # 0

\* C39: every replicator that exists, built by the caller or created by a
\* rewrite or a merge, has one delta per auxiliary port and a level that is
\* not negative, whatever deltas the caller passed
C39_ReplicatorShape ==
  \A n \in DOMAIN nodes :
    nodes[n].typ = "Replicator" =>
      /\ Len(nodes[n].deltas) = Len(nodes[n].ports) - 1
      /\ nodes[n].level >= 0

\* the per-rule counters of the rewrite rules
RuleCounters ==
  {"statFanAnn", "statRepAnn", "statRepComm", "statFanRepComm", "statErasure",
   "statAuxFanRep"}

\* C40: the fan-annihilation counter counts Fan-Fan annihilations only: a
\* rewrite adds 1 to it when both agents are fans and leaves it unchanged
\* otherwise (an Eraser-Eraser annihilation included), and every rewrite adds
\* 1 to the total and to exactly one per-rule counter
C40_FanAnnCounter ==
  [][\A t \in Threads :
       Applies(t, "ops") =>
         /\ stats'.statFanAnn = stats.statFanAnn +
              (IF Type(G, PairA(t)) = "Fan" /\ Type(G, PairB(t)) = "Fan" THEN 1 ELSE 0)
         /\ \E c \in RuleCounters :
              /\ stats'[c] = stats[c] + 1
              /\ \A o \in RuleCounters \ {c} : stats'[o] = stats[o]]_vars

====
